---- MODULE Spec2Model ----
(***************************************************************************)
(* Model of claude-hooks: the pre-bash command gate (compound command      *)
(* splitter and classifier), the plan scorer, the transcript plan selector *)
(* and the parallel reviewer fan-out.                                      *)
(*                                                                         *)
(* Text is modelled as a sequence of one-character strings, so that the    *)
(* string functions of the Go code (ReplaceAll, Split, TrimSpace, Fields,  *)
(* ToLower, Contains, filepath.Base) are computed character by character.  *)
(***************************************************************************)
EXTENDS Integers, Sequences, FiniteSets, TLC

VARIABLES
    \* ---- pre-bash gate (cmd/claude-hook main, handlePreBashBlocking)
    toolName,      \* input.ToolName
    command,       \* input.ToolInput.Command
    bpc,           \* position of the handler: "start", "loop", "exit"
    subCommands,   \* result of parseCompoundCommand(command)
    idx,           \* index of the sub-command the for loop is at (1-based)
    checked,       \* what the loop decided for each git-commit sub-command seen
    stdout,        \* JSON decisions written to standard output
    exitCode,      \* process exit code, -1 while running
    \* ---- plan scorer (internal/hooks scorePlan)
    scoreArg,      \* the argument of scorePlan
    score,         \* the value scorePlan returned
    spc,           \* "call" before the call, "ret" after it
    \* ---- transcript plan selector (internal/hooks extractPlanFromTranscript)
    transcript,    \* the lines of the transcript file
    tpc,           \* position: "read", "scan", "ret"
    tpos,          \* index of the line the for loop is at (1-based)
    bestPlan,      \* var bestPlan string
    bestScore,     \* var bestScore int
    scored,        \* indexes of the lines whose text was given to scorePlan
    extracted,     \* what extractPlanFromTranscript returned: (string, error)
    \* ---- reviewer fan-out (internal/hooks ReviewPlan)
    input,         \* PlanReviewInput
    rpc,           \* position of ReviewPlan: "start", "spawn", "wait", "ret"
    plan,          \* the plan text ReviewPlan works on
    spawned,       \* number of go statements executed
    wg,            \* counter of the sync.WaitGroup
    gpc,           \* position of each goroutine: "none", "ready", "running",
                   \* "assigned", "done"
    outcome,       \* what cmd.Run() of each reviewer ended with
    reviews,       \* reviews := make([]AIReview, 3)
    writes,        \* the goroutines in the order in which they wrote their slot
    result,        \* what ReviewPlan returned: (*PlanReviewResult, error)
    \* ---- the program (cmd/claude-hook main, handleSessionStart); it writes to
    \* ---- stdout and exitCode above
    hookType,      \* the value of the -type flag
    stdin,         \* the document on standard input
    args,          \* flag.Args(): the arguments after the flags
    osEnv,         \* what the program reads from its environment: $CLAUDE_CODE_CWD,
                   \* os.Getwd and the agents.md files on disk
    mpc,           \* position of main: "main", "session", "handler", "review",
                   \* "loop", "exit"
    mainInput,     \* var input Input / var input SessionStartInput
    filesByType,   \* filesByType := groupFilesByType(files)
    pending,       \* file types the range loop has not visited yet
    hookErrs,      \* the error each called hook returned, in the order of the calls
    hasErrors,     \* hasErrors := false
    errorMessages, \* var errorMessages []string
    \* ---- the setup program (cmd/setup: the settings it merges its hooks into)
    settings,      \* settings *ClaudeSettings
    calls          \* how often each add function has been called on settings

bashVars == <<toolName, command, bpc, subCommands, idx, checked, stdout, exitCode>>

scoreVars == <<scoreArg, score, spc>>

transVars == <<transcript, tpc, tpos, bestPlan, bestScore, scored, extracted>>

reviewVars == <<input, rpc, plan, spawned, wg, gpc, outcome, reviews, writes, result>>

mainVars ==
    <<hookType, stdin, args, osEnv, mpc, mainInput, filesByType, pending, hookErrs,
      hasErrors, errorMessages>>

settingsVars == <<settings, calls>>

vars == <<bashVars, scoreVars, transVars, reviewVars, mainVars, settingsVars>>

\* cmd.Run() of a reviewer has not returned yet
NoOutcome ==
    [ran |-> FALSE, err |-> <<>>, deadline |-> FALSE, stdout |-> <<>>,
     stderr |-> <<>>, duration |-> <<>>]

\* the value of the variables of a component that a specification does not run
BashIdle ==
    /\ toolName = ""
    /\ command = <<>>
    /\ bpc = "idle"
    /\ subCommands = <<>>
    /\ idx = 0
    /\ checked = <<>>
    /\ stdout = <<>>
    /\ exitCode = -1

ScoreIdle ==
    /\ scoreArg = <<>>
    /\ score = 0
    /\ spc = "idle"

TransIdle ==
    /\ transcript = <<>>
    /\ tpc = "idle"
    /\ tpos = 0
    /\ bestPlan = <<>>
    /\ bestScore = 0
    /\ scored = {}
    /\ extracted = [ok |-> FALSE, plan |-> <<>>, err |-> ""]

ReviewIdle ==
    /\ input = [PlanContent |-> <<>>, TranscriptPath |-> ""]
    /\ rpc = "idle"
    /\ plan = <<>>
    /\ spawned = 0
    /\ wg = 0
    /\ gpc = <<"none", "none", "none">>
    /\ outcome = <<NoOutcome, NoOutcome, NoOutcome>>
    /\ reviews = <<>>
    /\ writes = <<>>
    /\ result = [ok |-> FALSE, Reviews |-> <<>>, Summary |-> <<>>, err |-> ""]

\* the zero value of Input and of SessionStartInput
ZeroInput ==
    [ToolName |-> "", FilePath |-> <<>>, FilePaths |-> <<>>, Command |-> <<>>,
     TranscriptPath |-> <<>>]

MainIdle ==
    /\ hookType = ""
    /\ stdin = [syntax |-> FALSE]
    /\ args = <<>>
    /\ osEnv = [claudeCodeCwd |-> <<>>]
    /\ mpc = "idle"
    /\ mainInput = ZeroInput
    /\ filesByType = <<>>
    /\ pending = {}
    /\ hookErrs = <<>>
    /\ hasErrors = FALSE
    /\ errorMessages = <<>>

SettingsIdle ==
    /\ settings = [Model |-> "", Hooks |-> <<>>]
    /\ calls = <<>>

-----------------------------------------------------------------------------
(* Bounds of the model *)

\* Maximal number of pieces a generated command line is built from.
MaxPieces == 4

\* plan texts carry up to MaxFill fillers of 25 one-byte characters and up to
\* MaxEuro fillers of 15 three-byte characters
MaxFill == 2
MaxEuro == 1

\* Maximal number of lines of a transcript.
MaxLines == 3

\* Maximal number of calls of each add function of the setup program on the
\* same settings.
MaxCalls == 2

-----------------------------------------------------------------------------
(* Go string functions, on sequences of characters.                        *)
(* Recursive definitions recur once per match, field or half of the text   *)
(* (never once per character), so that their evaluation stays shallow.     *)

\* least and greatest element of a non-empty set of integers
Min(S) == CHOOSE x \in S : \A y \in S : x <= y
Max(S) == CHOOSE x \in S : \A y \in S : x >= y

\* unicode.IsSpace restricted to the characters of the model
IsSpace(c) == c \in {" ", "\t", "\n"}

\* strings.TrimSpace
TrimSpace(s) ==
    LET keep == {i \in 1..Len(s) : ~IsSpace(s[i])} IN
    IF keep = {} THEN <<>> ELSE SubSeq(s, Min(keep), Max(keep))

\* whether sub stands in s at place i
MatchAt(s, sub, i) ==
    /\ i >= 1
    /\ i + Len(sub) - 1 <= Len(s)
    /\ \A k \in 1..Len(sub) : s[i + k - 1] = sub[k]

\* strings.Index, 1-based: the place of the first occurrence of sub in s, 0 when
\* there is none
Index(s, sub) ==
    LET hits == {i \in 1..(Len(s) - Len(sub) + 1) : MatchAt(s, sub, i)}
    IN IF hits = {} THEN 0 ELSE Min(hits)

\* strings.Contains
Contains(s, sub) == \E i \in 1..(Len(s) - Len(sub) + 1) : MatchAt(s, sub, i)

\* strings.ReplaceAll for a non-empty old: leftmost, non-overlapping matches
RECURSIVE ReplaceAll(_, _, _)
ReplaceAll(s, old, new) ==
    LET i == Index(s, old) IN
    IF i = 0 THEN s
    ELSE SubSeq(s, 1, i - 1) \o new
         \o ReplaceAll(SubSeq(s, i + Len(old), Len(s)), old, new)

\* strings.Split for a non-empty sep
RECURSIVE Split(_, _)
Split(s, sep) ==
    LET i == Index(s, sep) IN
    IF i = 0 THEN <<s>>
    ELSE <<SubSeq(s, 1, i - 1)>> \o Split(SubSeq(s, i + Len(sep), Len(s)), sep)

\* strings.Fields: the maximal runs of non-space characters
RECURSIVE Fields(_)
Fields(s) ==
    LET starts == {i \in 1..Len(s) : ~IsSpace(s[i])} IN
    IF starts = {} THEN <<>>
    ELSE LET a == Min(starts)
             ends == {j \in a..Len(s) : IsSpace(s[j])}
             b == IF ends = {} THEN Len(s) + 1 ELSE Min(ends)
         IN <<SubSeq(s, a, b - 1)>> \o Fields(SubSeq(s, b, Len(s)))

UpperLetters ==
    <<"A","B","C","D","E","F","G","H","I","J","K","L","M",
      "N","O","P","Q","R","S","T","U","V","W","X","Y","Z">>
LowerLetters ==
    <<"a","b","c","d","e","f","g","h","i","j","k","l","m",
      "n","o","p","q","r","s","t","u","v","w","x","y","z">>

ToLowerChar(c) ==
    IF \E i \in 1..26 : UpperLetters[i] = c
    THEN LowerLetters[CHOOSE i \in 1..26 : UpperLetters[i] = c]
    ELSE c

\* strings.ToLower
ToLower(s) == [i \in 1..Len(s) |-> ToLowerChar(s[i])]

\* filepath.Base (Unix): trailing slashes removed, then the last element
Base(path) ==
    IF path = <<>> THEN <<".">>
    ELSE LET nonSlash == {i \in 1..Len(path) : path[i] # "/"} IN
         IF nonSlash = {} THEN <<"/">>
         ELSE LET p == SubSeq(path, 1, Max(nonSlash))
                  slashes == {i \in 1..Len(p) : p[i] = "/"}
              IN IF slashes = {} THEN p ELSE SubSeq(p, Max(slashes) + 1, Len(p))

\* concatenation of the texts f[lo], ..., f[hi]
RECURSIVE ConcatRange(_, _, _)
ConcatRange(f, lo, hi) ==
    IF lo > hi THEN <<>>
    ELSE IF lo = hi THEN f[lo]
    ELSE LET mid == (lo + hi) \div 2 IN
         ConcatRange(f, lo, mid) \o ConcatRange(f, mid + 1, hi)

\* concatenation of a sequence of texts
Concat(ss) == ConcatRange(ss, 1, Len(ss))

-----------------------------------------------------------------------------
(* The compound command splitter *)

\* the backtick character (it cannot be written in a TLA+ string literal)
Backtick == "BACKTICK"

\* case '"', '\'', BACKTICK in splitPipes
QuoteChars == {"\"", "'", Backtick}

\* delim := "||SPLIT||"
Delim == <<"|", "|", "S", "P", "L", "I", "T", "|", "|">>

\* inQuotes and quoteChar after the switch of splitPipes has seen char
QuoteStep(st, char) ==
    IF char \in QuoteChars
    THEN (IF ~st.inQuotes THEN [inQuotes |-> TRUE, quoteChar |-> char]
          ELSE IF char = st.quoteChar THEN [inQuotes |-> FALSE, quoteChar |-> st.quoteChar]
          ELSE st)
    ELSE st

\* inQuotes and quoteChar of the loop of splitPipes when it reaches each of the
\* characters lo..hi, st being the state at lo
RECURSIVE QuoteStates(_, _, _, _)
QuoteStates(cmd, lo, hi, st) ==
    IF lo > hi THEN <<>>
    ELSE IF lo = hi THEN <<st>>
    ELSE LET mid == (lo + hi) \div 2
             left == QuoteStates(cmd, lo, mid, st)
         IN left \o QuoteStates(cmd, mid + 1, hi, QuoteStep(left[Len(left)], cmd[mid]))

\* what the loop of splitPipes writes to result for character i
PipeWritten(cmd, delim, i, st) ==
    IF cmd[i] = "|" /\ ~st.inQuotes
    THEN (IF i + 1 <= Len(cmd) /\ cmd[i + 1] = "|" THEN <<cmd[i]>> ELSE delim)
    ELSE <<cmd[i]>>

splitPipes(cmd, delim) ==
    LET sts == QuoteStates(cmd, 1, Len(cmd), [inQuotes |-> FALSE, quoteChar |-> ""])
    IN Concat([i \in 1..Len(cmd) |-> PipeWritten(cmd, delim, i, sts[i])])

\* the three strings.ReplaceAll calls, in the order of the code
ReplaceOperators(cmd) ==
    ReplaceAll(ReplaceAll(ReplaceAll(cmd, <<"&", "&">>, Delim),
                          <<"|", "|">>, Delim),
               <<";">>, Delim)

\* the trimmed, non-empty parts, in order
RECURSIVE CleanParts(_)
CleanParts(parts) ==
    IF parts = <<>> THEN <<>>
    ELSE LET trimmed == TrimSpace(Head(parts)) IN
         (IF trimmed # <<>> THEN <<trimmed>> ELSE <<>>) \o CleanParts(Tail(parts))

parseCompoundCommand(cmd) ==
    CleanParts(Split(splitPipes(ReplaceOperators(cmd), Delim), Delim))

-----------------------------------------------------------------------------
(* The command classifier and the pre-bash handler *)

Mysql == <<"m", "y", "s", "q", "l">>
Mysqldump == <<"m", "y", "s", "q", "l", "d", "u", "m", "p">>
Mariadb == <<"m", "a", "r", "i", "a", "d", "b">>
Git == <<"g", "i", "t">>
Commit == <<"c", "o", "m", "m", "i", "t">>
BranchMain == <<"m", "a", "i", "n">>
BranchMaster == <<"m", "a", "s", "t", "e", "r">>
Head_ == <<"H", "E", "A", "D">>
ClaudeHooks == <<"c", "l", "a", "u", "d", "e", "-", "h", "o", "o", "k", "s">>

\* executable == "mysql" || executable == "mysqldump" || executable == "mariadb"
IsMySQLExecutable(executable) ==
    executable = Mysql \/ executable = Mysqldump \/ executable = Mariadb

\* protectedBranches := []string{"master", "main"}
protectedBranches == <<BranchMaster, BranchMain>>

\* a mutation of isProtectedBranch: the comparison ignores case
isProtectedBranchFold(branch) ==
    \E i \in 1..Len(protectedBranches) : protectedBranches[i] = ToLower(branch)

\* slices.Contains(protectedBranches, branch)
isProtectedBranch(branch) ==
    \E i \in 1..Len(protectedBranches) : protectedBranches[i] = branch

\* getCurrentBranch on the outcome of its git invocations: run.first is
\* "git branch --show-current", run.fallback is "git rev-parse --abbrev-ref HEAD"
getCurrentBranch(run) ==
    IF ~run.first.ok /\ ~run.fallback.ok THEN <<>>
    ELSE LET output == IF run.first.ok THEN run.first.out ELSE run.fallback.out
             branch == TrimSpace(output)
         IN IF branch = Head_ THEN <<>> ELSE branch

\* the first non-empty findGitRoot result over the collected files
RECURSIVE FirstGitRoot(_)
FirstGitRoot(roots) ==
    IF roots = <<>> THEN <<>>
    ELSE IF Head(roots) # <<>> THEN Head(roots) ELSE FirstGitRoot(Tail(roots))

\* getTargetWorkingDirectory on what it reads from its environment:
\* env.claudeCodeCwd is $CLAUDE_CODE_CWD, env.gitRoots the findGitRoot result of
\* each collected file, env.getwd the outcome of os.Getwd
getTargetWorkingDirectory(env) ==
    IF env.claudeCodeCwd # <<>> THEN env.claudeCodeCwd
    ELSE IF FirstGitRoot(env.gitRoots) # <<>> THEN FirstGitRoot(env.gitRoots)
    ELSE IF env.getwd.ok
         THEN (IF Contains(env.getwd.dir, ClaudeHooks) THEN <<>> ELSE env.getwd.dir)
         ELSE <<>>

-----------------------------------------------------------------------------
(* Inputs and environment of the pre-bash gate *)

PathMariaDB == <<"/", "b", "/", "M", "a", "r", "i", "a", "D", "B">>
Ls == <<"l", "s">>
GitCommit == <<"g", "i", "t", " ", "c", "o", "m", "m", "i", "t">>

\* the pieces generated command lines are built from
Pieces ==
    { Mysql, PathMariaDB, Ls, GitCommit,
      <<" ">>, <<";">>, <<"&", "&">>, <<"|">>, <<"\"">> }

\* echo "a && b" && mysql -u root
ExampleCommand ==
    <<"e", "c", "h", "o", " ", "\"", "a", " ", "&", "&", " ", "b", "\"", " ", "&", "&", " ", "m", "y", "s", "q", "l", " ", "-", "u", " ", "r", "o", "o", "t">>

\* echo "done; mysql next"
EchoDoneMysql ==
    <<"e","c","h","o"," ","\"","d","o","n","e",";"," ","m","y","s","q","l",
      " ","n","e","x","t","\"">>

\* grep mysql file
GrepMysqlFile ==
    <<"g","r","e","p"," ","m","y","s","q","l"," ","f","i","l","e">>

Commands ==
    { Concat(ps) : ps \in UNION { [1..k -> Pieces] : k \in 0..MaxPieces } }
        \cup { ExampleCommand, EchoDoneMysql, GrepMysqlFile }

ToolNames == {"Bash", "bash", "Write"}

Repo == <<"/", "r">>
OtherRepo == <<"/", "o">>
HooksDir == <<"/", "c", "l", "a", "u", "d", "e", "-", "h", "o", "o", "k", "s">>

\* what getTargetWorkingDirectory may find in its environment
TargetEnvs ==
    { [claudeCodeCwd |-> Repo, gitRoots |-> <<>>, getwd |-> [ok |-> TRUE, dir |-> HooksDir]],
      [claudeCodeCwd |-> <<>>, gitRoots |-> << <<>>, OtherRepo >>,
                               getwd |-> [ok |-> TRUE, dir |-> HooksDir]],
      [claudeCodeCwd |-> <<>>, gitRoots |-> <<>>, getwd |-> [ok |-> TRUE, dir |-> HooksDir]],
      [claudeCodeCwd |-> <<>>, gitRoots |-> << <<>> >>, getwd |-> [ok |-> TRUE, dir |-> Repo]],
      [claudeCodeCwd |-> <<>>, gitRoots |-> <<>>, getwd |-> [ok |-> FALSE, dir |-> <<>>]] }

GitOutputs ==
    { <<"m", "a", "i", "n", "\n">>,
      <<"m", "a", "s", "t", "e", "r", "\n">>,
      <<"M", "a", "i", "n", "\n">>,
      <<"M", "A", "S", "T", "E", "R", "\n">>,
      <<"d", "e", "v", "e", "l", "o", "p", "\n">>,
      <<"f", "e", "a", "t", "u", "r", "e", "/", "x", "\n">>,
      <<"\n">> }

Failed == [ok |-> FALSE, out |-> <<>>]

\* outcomes of the git invocations of getCurrentBranch
GitRuns ==
    { [first |-> [ok |-> TRUE, out |-> o], fallback |-> Failed] : o \in GitOutputs }
    \cup { [first |-> Failed, fallback |-> [ok |-> TRUE, out |-> <<"H", "E", "A", "D", "\n">>]],
           [first |-> Failed, fallback |-> [ok |-> TRUE, out |-> <<"m", "a", "i", "n", "\n">>]],
           [first |-> Failed, fallback |-> Failed] }

InitBash ==
    /\ toolName \in ToolNames
    /\ command \in Commands
    /\ bpc = "start"
    /\ subCommands = <<>>
    /\ idx = 0
    /\ checked = <<>>
    /\ stdout = <<>>
    /\ exitCode = -1
    /\ ScoreIdle /\ TransIdle /\ ReviewIdle /\ MainIdle /\ SettingsIdle

\* the PreToolUseOutput written by fmt.Println(string(jsonOutput))
DenyOutput(kind, subCmd, branch) ==
    [hookEventName |-> "PreToolUse",
     permissionDecision |-> "deny",
     reason |-> [kind |-> kind, command |-> command, subCmd |-> subCmd,
                 branch |-> branch]]

\* os.Exit(code)
Exit(code) == bpc' = "exit" /\ exitCode' = code

\* handlePreBashBlocking up to the for loop without the check of the tool
\* name
PreBashEnterAnyTool ==
    /\ bpc = "start"
    /\ IF command = <<>>
       THEN Exit(0) /\ UNCHANGED <<subCommands, idx>>
       ELSE /\ subCommands' = parseCompoundCommand(command)
            /\ idx' = 1
            /\ bpc' = "loop"
            /\ UNCHANGED exitCode
    /\ UNCHANGED <<toolName, command, checked, stdout>>
    /\ UNCHANGED <<scoreVars, transVars, reviewVars, mainVars, settingsVars>>


\* handlePreBashBlocking up to the for loop: the tool name and empty command
\* checks, and the call of parseCompoundCommand
PreBashEnter ==
    /\ bpc = "start"
    /\ IF toolName # "Bash" /\ toolName # "bash"
       THEN Exit(0) /\ UNCHANGED <<subCommands, idx>>
       ELSE IF command = <<>>
       THEN Exit(0) /\ UNCHANGED <<subCommands, idx>>
       ELSE /\ subCommands' = parseCompoundCommand(command)
            /\ idx' = 1
            /\ bpc' = "loop"
            /\ UNCHANGED exitCode
    /\ UNCHANGED <<toolName, command, checked, stdout>>
    /\ UNCHANGED <<scoreVars, transVars, reviewVars, mainVars, settingsVars>>

\* continue: the loop goes on with the next sub-command
Continue == idx' = idx + 1 /\ UNCHANGED <<bpc, exitCode, stdout>>

\* one iteration of the loop if an allowed git commit ended the scan with
\* "Command is allowed" instead of going on
PreBashCheckStopsAtCommit ==
    /\ bpc = "loop"
    /\ idx <= Len(subCommands)
    /\ LET subCmd == subCommands[idx]
           parts == Fields(TrimSpace(subCmd))
       IN IF Len(parts) = 0
          THEN Continue /\ UNCHANGED checked
          ELSE LET executable == ToLower(Base(parts[1])) IN
               IF IsMySQLExecutable(executable)
               THEN /\ stdout' = Append(stdout, DenyOutput("mysql", subCmd, <<>>))
                    /\ Exit(0)
                    /\ UNCHANGED <<idx, checked>>
               ELSE IF executable = Git /\ Len(parts) >= 2 /\ parts[2] = Commit
               THEN \E env \in TargetEnvs :
                      LET targetDir == getTargetWorkingDirectory(env) IN
                      IF targetDir = <<>>
                      THEN /\ checked' = Append(checked,
                                [subCmd |-> subCmd, targetDir |-> targetDir,
                                 branch |-> <<>>, verdict |-> "allow"])
                           /\ Exit(0)
                           /\ UNCHANGED <<idx, stdout>>
                      ELSE \E run \in GitRuns :
                             LET currentBranch == getCurrentBranch(run) IN
                             IF currentBranch # <<>> /\ isProtectedBranch(currentBranch)
                             THEN /\ checked' = Append(checked,
                                       [subCmd |-> subCmd, targetDir |-> targetDir,
                                        branch |-> currentBranch, verdict |-> "deny"])
                                  /\ stdout' = Append(stdout,
                                       DenyOutput("branch", subCmd, currentBranch))
                                  /\ Exit(0)
                                  /\ UNCHANGED idx
                             ELSE /\ checked' = Append(checked,
                                       [subCmd |-> subCmd, targetDir |-> targetDir,
                                        branch |-> currentBranch, verdict |-> "allow"])
                                  /\ Exit(0)
                                  /\ UNCHANGED <<idx, stdout>>
               ELSE Continue /\ UNCHANGED checked
    /\ UNCHANGED <<toolName, command, subCommands>>
    /\ UNCHANGED <<scoreVars, transVars, reviewVars, mainVars, settingsVars>>


\* one iteration of "for _, subCmd := range subCommands"
PreBashCheck ==
    /\ bpc = "loop"
    /\ idx <= Len(subCommands)
    /\ LET subCmd == subCommands[idx]
           parts == Fields(TrimSpace(subCmd))
       IN IF Len(parts) = 0
          THEN Continue /\ UNCHANGED checked
          ELSE LET executable == ToLower(Base(parts[1])) IN
               IF IsMySQLExecutable(executable)
               THEN /\ stdout' = Append(stdout, DenyOutput("mysql", subCmd, <<>>))
                    /\ Exit(0)
                    /\ UNCHANGED <<idx, checked>>
               ELSE IF executable = Git /\ Len(parts) >= 2 /\ parts[2] = Commit
               THEN \E env \in TargetEnvs :
                      LET targetDir == getTargetWorkingDirectory(env) IN
                      IF targetDir = <<>>
                      THEN /\ checked' = Append(checked,
                                [subCmd |-> subCmd, targetDir |-> targetDir,
                                 branch |-> <<>>, verdict |-> "allow"])
                           /\ Continue
                      ELSE \E run \in GitRuns :
                             LET currentBranch == getCurrentBranch(run) IN
                             IF currentBranch # <<>> /\ isProtectedBranch(currentBranch)
                             THEN /\ checked' = Append(checked,
                                       [subCmd |-> subCmd, targetDir |-> targetDir,
                                        branch |-> currentBranch, verdict |-> "deny"])
                                  /\ stdout' = Append(stdout,
                                       DenyOutput("branch", subCmd, currentBranch))
                                  /\ Exit(0)
                                  /\ UNCHANGED idx
                             ELSE /\ checked' = Append(checked,
                                       [subCmd |-> subCmd, targetDir |-> targetDir,
                                        branch |-> currentBranch, verdict |-> "allow"])
                                  /\ Continue
               ELSE Continue /\ UNCHANGED checked
    /\ UNCHANGED <<toolName, command, subCommands>>
    /\ UNCHANGED <<scoreVars, transVars, reviewVars, mainVars, settingsVars>>

\* the end of the loop: "Command is allowed", os.Exit(0)
PreBashAllow ==
    /\ bpc = "loop"
    /\ idx > Len(subCommands)
    /\ Exit(0)
    /\ UNCHANGED <<toolName, command, subCommands, idx, checked, stdout>>
    /\ UNCHANGED <<scoreVars, transVars, reviewVars, mainVars, settingsVars>>

NextBash == PreBashEnter \/ PreBashCheck \/ PreBashAllow

SpecBash == InitBash /\ [][NextBash]_vars

-----------------------------------------------------------------------------
(* The quote-aware reading of a command line that the claims refer to:       *)
(* a left-to-right scan that tracks the open quote character and cuts the    *)
(* text at each "&&", "||", ";" and "|" found outside quotes.                *)

\* the place of the first character of cmd at or after i that opens a quote or
\* starts a delimiter, 0 when there is none
NextSpecial(cmd, i) ==
    LET hits == {j \in i..Len(cmd) :
                    \/ cmd[j] \in QuoteChars \cup {";", "|"}
                    \/ cmd[j] = "&" /\ j + 1 <= Len(cmd) /\ cmd[j + 1] = "&"}
    IN IF hits = {} THEN 0 ELSE Min(hits)

\* the place of the first c in cmd at or after i, 0 when there is none
NextChar(cmd, c, i) ==
    LET hits == {k \in i..Len(cmd) : cmd[k] = c} IN
    IF hits = {} THEN 0 ELSE Min(hits)

\* The scan from character i on, outside quotes: the alternating sequence
\* <<piece, delimiter, piece, ..., piece>>, cur being the piece collected so far.
\* A quote that is never closed makes the rest of the text literal.
RECURSIVE QuoteAwareTokens(_, _, _)
QuoteAwareTokens(cmd, i, cur) ==
    LET j == NextSpecial(cmd, i) IN
    IF j = 0 THEN <<cur \o SubSeq(cmd, i, Len(cmd))>>
    ELSE LET pre == cur \o SubSeq(cmd, i, j - 1)
             c == cmd[j]
         IN IF c \in QuoteChars
            THEN LET k == NextChar(cmd, c, j + 1) IN
                 IF k = 0 THEN <<pre \o SubSeq(cmd, j, Len(cmd))>>
                 ELSE QuoteAwareTokens(cmd, k + 1, pre \o SubSeq(cmd, j, k))
            ELSE IF c \in {"&", "|"} /\ j + 1 <= Len(cmd) /\ cmd[j + 1] = c
            THEN <<pre, <<c, c>>>> \o QuoteAwareTokens(cmd, j + 2, <<>>)
            ELSE <<pre, <<c>>>> \o QuoteAwareTokens(cmd, j + 1, <<>>)

\* the place of the first quote character of cmd at or after i, 0 when none
NextQuote(cmd, i) ==
    LET hits == {j \in i..Len(cmd) : cmd[j] \in QuoteChars} IN
    IF hits = {} THEN 0 ELSE Min(hits)

\* whether every quote opened in cmd from character i on is closed
RECURSIVE BalancedFrom(_, _)
BalancedFrom(cmd, i) ==
    LET j == NextQuote(cmd, i) IN
    IF j = 0 THEN TRUE
    ELSE LET k == NextChar(cmd, cmd[j], j + 1) IN
         IF k = 0 THEN FALSE ELSE BalancedFrom(cmd, k + 1)

BalancedQuotes(cmd) == BalancedFrom(cmd, 1)

RefTokens(cmd) == QuoteAwareTokens(cmd, 1, <<>>)

\* the raw pieces between the unquoted delimiters, and those delimiters
RefPieces(cmd) ==
    LET t == RefTokens(cmd) IN [k \in 1..((Len(t) + 1) \div 2) |-> t[2 * k - 1]]
RefDelims(cmd) ==
    LET t == RefTokens(cmd) IN [k \in 1..(Len(t) \div 2) |-> t[2 * k]]

RECURSIVE TrimmedNonEmpty(_)
TrimmedNonEmpty(ps) ==
    IF ps = <<>> THEN <<>>
    ELSE (IF TrimSpace(Head(ps)) = <<>> THEN <<>> ELSE <<TrimSpace(Head(ps))>>)
         \o TrimmedNonEmpty(Tail(ps))

\* the sub-commands of cmd: its trimmed, non-empty pieces
RefSubCommands(cmd) == TrimmedNonEmpty(RefPieces(cmd))

\* the first token of a sub-command, path-stripped and lower-cased
ExecutableName(subCmd) ==
    LET parts == Fields(subCmd) IN
    IF parts = <<>> THEN <<>> ELSE ToLower(Base(parts[1]))

\* s1 d1 s2 d2 ... sn: the sub-commands with the delimiters put back
RECURSIVE Rebuild(_, _)
Rebuild(subs, delims) ==
    IF subs = <<>> THEN <<>>
    ELSE IF delims = <<>> THEN Head(subs)
    ELSE Head(subs) \o Head(delims) \o Rebuild(Tail(subs), Tail(delims))

IsBashTool == toolName \in {"Bash", "bash"}
Parsed == IsBashTool /\ command # <<>> /\ bpc # "start"
Denied ==
    /\ Len(stdout) = 1
    /\ stdout[1].permissionDecision = "deny"
Finished == bpc = "exit"

-----------------------------------------------------------------------------
(* Claims about the pre-bash gate *)

\* C1: for a command line built from sub-commands joined by "&&", "||", ";" or
\* an unquoted "|" (quotes balanced, every piece between two operators a
\* sub-command, with or without whitespace around the operators), whenever some sub-command has
\* mysql, mysqldump or mariadb as its path-stripped, lower-cased first token,
\* the gate ends with a deny decision, whatever the position of that sub-command.
C1_DenylistedAnywhereIsDenied ==
    (Finished /\ IsBashTool /\ BalancedQuotes(command)
        /\ Len(RefSubCommands(command)) = Len(RefPieces(command))
        /\ \E k \in 1..Len(RefSubCommands(command)) :
              IsMySQLExecutable(ExecutableName(RefSubCommands(command)[k])))
    => Denied

EchoQuoted == <<"e", "c", "h", "o", " ", "\"", "a", " ", "&", "&", " ", "b", "\"">>
MysqlRoot == <<"m", "y", "s", "q", "l", " ", "-", "u", " ", "r", "o", "o", "t">>

\* C2: parseCompoundCommand on  echo "a && b" && mysql -u root  returns exactly
\* the two sub-commands  echo "a && b"  and  mysql -u root, in that order.
C2_ExampleSplitsInTwo ==
    (Parsed /\ command = ExampleCommand) => subCommands = <<EchoQuoted, MysqlRoot>>

\* the closed quoted regions of cmd from character i on, each from its opening
\* quote character to the matching closing one
RECURSIVE QuotedRegionsFrom(_, _)
QuotedRegionsFrom(cmd, i) ==
    LET j == NextQuote(cmd, i) IN
    IF j = 0 THEN <<>>
    ELSE LET k == NextChar(cmd, cmd[j], j + 1) IN
         IF k = 0 THEN <<>>
         ELSE <<SubSeq(cmd, j, k)>> \o QuotedRegionsFrom(cmd, k + 1)

QuotedRegions(cmd) == QuotedRegionsFrom(cmd, 1)

\* C3: an operator inside a quoted region is literal text, so no sub-command
\* boundary falls inside a quoted region: every quoted region of the command is
\* found whole inside one returned sub-command. An operator outside the quoted
\* regions always is a boundary: there are at least as many sub-commands as
\* non-empty pieces between the unquoted operators.
C3_BoundariesOnlyOutsideQuotes ==
    Parsed =>
        /\ \A r \in 1..Len(QuotedRegions(command)) :
              \E k \in 1..Len(subCommands) :
                  Contains(subCommands[k], QuotedRegions(command)[r])
        /\ Len(subCommands) >= Len(RefSubCommands(command))

\* C4: round trip. For a command with balanced quotes (and no empty piece
\* between two delimiters), the returned sub-commands with the delimiters that
\* separated them put back give the original text up to the whitespace trimmed
\* around each sub-command: nothing is lost and nothing is added.
C4_SplitRoundTrip ==
    (Parsed /\ BalancedQuotes(command)
        /\ Len(RefSubCommands(command)) = Len(RefPieces(command)))
    => /\ Len(subCommands) = Len(RefDelims(command)) + 1
       /\ Rebuild(subCommands, RefDelims(command))
            = Rebuild(RefSubCommands(command), RefDelims(command))

IsGitCommit(subCmd) ==
    LET parts == Fields(subCmd) IN
    /\ Len(parts) >= 2
    /\ ToLower(Base(parts[1])) = Git
    /\ parts[2] = Commit

\* C5: branch protection. Every git commit sub-command that was checked with a
\* determined target directory was denied if and only if the resolved branch is
\* exactly "main" or "master"; a denial ends the gate with a deny decision
\* naming that sub-command and branch.
C5_CommitDeniedIffProtectedBranch ==
    \A k \in 1..Len(checked) :
        LET e == checked[k] IN
        /\ IsGitCommit(e.subCmd)
        /\ e.targetDir # <<>> =>
             /\ (e.verdict = "deny") <=> (e.branch = BranchMain \/ e.branch = BranchMaster)
             /\ e.verdict = "deny" =>
                  /\ Finished /\ Denied /\ k = Len(checked)
                  /\ stdout[1].reason.kind = "branch"
                  /\ stdout[1].reason.subCmd = e.subCmd
                  /\ stdout[1].reason.branch = e.branch
             /\ (e.verdict = "allow" /\ k = Len(checked) /\ Denied)
                  => stdout[1].reason.kind = "mysql"

\* C5 witness: a commit on branch "Main" was allowed and the scan went on to a
\* second commit, on "master", which was denied.
C5_Witness ==
    /\ Len(checked) = 2
    /\ checked[1].targetDir # <<>> /\ checked[1].branch = <<"M", "a", "i", "n">>
    /\ checked[1].verdict = "allow"
    /\ checked[2].targetDir # <<>> /\ checked[2].branch = BranchMaster
    /\ checked[2].verdict = "deny"
    /\ Finished /\ Denied

-----------------------------------------------------------------------------
(* The plan scorer (internal/hooks/plan_review.go) *)

\* the character U+20AC, three bytes long in UTF-8
Euro == "EURO"

\* len(content): the number of bytes of the UTF-8 text
ByteLen(s) == Len(s) + 2 * Cardinality({i \in 1..Len(s) : s[i] = Euro})

\* scorePlan without its filter of short messages
scorePlanNoMinimum(content) ==
    IF content = <<>> THEN 0
    ELSE LET lower == ToLower(content) IN
           (IF \/ Contains(content, <<"#","#"," ","P","l","a","n">>)
               \/ Contains(content, <<"#","#"," ","I","m","p","l","e","m","e",
                                      "n","t","a","t","i","o","n">>)
               \/ Contains(content, <<"#","#"," ","P","r","o","p","o","s","e",
                                      "d"," ","A","p","p","r","o","a","c",
                                      "h">>)
            THEN 100 ELSE 0)
         + (IF Contains(content, <<"1","."," ">>) /\ Contains(content, <<"2","."," ">>)
            THEN 20 ELSE 0)
         + (IF Contains(content, <<"-"," ","["," ","]">>) \/ Contains(content, <<"-"," ","[","x","]">>)
            THEN 20 ELSE 0)
         + (IF Contains(lower, <<"p","l","a","n">>) THEN 10 ELSE 0)
         + (IF Contains(lower, <<"s","t","e","p">>) THEN 5 ELSE 0)

\* a mutation of scorePlan: the keywords are looked for only when the text has
\* no plan heading
scorePlanKeywordsUnlessHeading(content) ==
    IF content = <<>> THEN 0
    ELSE IF ByteLen(content) < 50 THEN 0
    ELSE LET lower == ToLower(content)
             heading ==
               \/ Contains(content, <<"#","#"," ","P","l","a","n">>)
               \/ Contains(content, <<"#","#"," ","I","m","p","l","e","m","e",
                                      "n","t","a","t","i","o","n">>)
               \/ Contains(content, <<"#","#"," ","P","r","o","p","o","s","e",
                                      "d"," ","A","p","p","r","o","a","c",
                                      "h">>)
         IN
           (IF heading THEN 100 ELSE 0)
         + (IF Contains(content, <<"1","."," ">>) /\ Contains(content, <<"2","."," ">>)
            THEN 20 ELSE 0)
         + (IF Contains(content, <<"-"," ","["," ","]">>) \/ Contains(content, <<"-"," ","[","x","]">>)
            THEN 20 ELSE 0)
         + (IF ~heading /\ Contains(lower, <<"p","l","a","n">>) THEN 10 ELSE 0)
         + (IF ~heading /\ Contains(lower, <<"s","t","e","p">>) THEN 5 ELSE 0)


scorePlan(content) ==
    IF content = <<>> THEN 0
    ELSE IF ByteLen(content) < 50 THEN 0
    ELSE LET lower == ToLower(content) IN
           (IF \/ Contains(content, <<"#","#"," ","P","l","a","n">>)
               \/ Contains(content, <<"#","#"," ","I","m","p","l","e","m","e",
                                      "n","t","a","t","i","o","n">>)
               \/ Contains(content, <<"#","#"," ","P","r","o","p","o","s","e",
                                      "d"," ","A","p","p","r","o","a","c",
                                      "h">>)
            THEN 100 ELSE 0)
         + (IF Contains(content, <<"1","."," ">>) /\ Contains(content, <<"2","."," ">>)
            THEN 20 ELSE 0)
         + (IF Contains(content, <<"-"," ","["," ","]">>) \/ Contains(content, <<"-"," ","[","x","]">>)
            THEN 20 ELSE 0)
         + (IF Contains(lower, <<"p","l","a","n">>) THEN 10 ELSE 0)
         + (IF Contains(lower, <<"s","t","e","p">>) THEN 5 ELSE 0)

(* The texts scorePlan is called with *)

\* s repeated n times
Repeat(s, n) == Concat([i \in 1..n |-> s])

\* 25 one-byte characters and 15 three-byte characters that carry no indicator
Fill == [i \in 1..25 |-> "."]
EuroFill == [i \in 1..15 |-> Euro]

Headings ==
    { <<>>,
      <<"#","#"," ","P","l","a","n","\n">>,
      <<"#","#"," ","p","l","a","n","\n">>,
      <<"#","#"," ","I","m","p","l","e","m","e","n","t","a","t","i","o","n",
        "\n">>,
      <<"#","#"," ","P","r","o","p","o","s","e","d"," ","A","p","p","r","o",
        "a","c","h","\n">> }

Checklists ==
    { <<>>,
      <<"-"," ","["," ","]"," ","a","\n">>,
      <<"-"," ","[","x","]"," ","b","\n">>,
      <<"-"," ","["," ","]"," ","a","\n","-"," ","[","x","]"," ","b","\n">> }

PlanTextOf(heading, one, two, checklist, planWord, stepWord, fill, euroFill) ==
    heading
    \o (IF one THEN <<"1","."," ","a","\n">> ELSE <<>>)
    \o (IF two THEN <<"2","."," ","b","\n">> ELSE <<>>)
    \o checklist
    \o (IF planWord THEN <<"P","L","A","N"," ">> ELSE <<>>)
    \o (IF stepWord THEN <<"S","t","e","p"," ">> ELSE <<>>)
    \o Repeat(Fill, fill)
    \o Repeat(EuroFill, euroFill)

\* the example of the specification: 46 bytes
ExamplePlan ==
    <<"#","#"," ","I","m","p","l","e","m","e","n","t","a","t","i","o","n"," ",
      "P","l","a","n","\n","1","."," ","S","t","e","p"," ","o","n","e","\n",
      "2","."," ","S","t","e","p"," ","t","w","o">>

\* the same text with a third step: 60 bytes
ExamplePlanLong ==
    <<"#","#"," ","I","m","p","l","e","m","e","n","t","a","t","i","o","n"," ",
      "P","l","a","n","\n","1","."," ","S","t","e","p"," ","o","n","e","\n",
      "2","."," ","S","t","e","p"," ","t","w","o","\n","3","."," ","S","t",
      "e","p"," ","t","h","r","e","e">>

\* a conversational filler of 44 bytes
FillerText ==
    <<"N","o","w"," ","l","e","t"," ","m","e"," ","w","r","i","t","e"," ","u",
      "p"," ","t","h","e"," ","i","m","p","l","e","m","e","n","t","a","t","i",
      "o","n"," ","p","l","a","n",".">>

PlanTexts ==
    { PlanTextOf(h, one, two, c, p, s, f, e) :
        h \in Headings, one \in BOOLEAN, two \in BOOLEAN, c \in Checklists,
        p \in BOOLEAN, s \in BOOLEAN, f \in 0..MaxFill, e \in 0..MaxEuro }
    \cup {ExamplePlan, ExamplePlanLong, FillerText}

InitScore ==
    /\ scoreArg \in PlanTexts
    /\ score = -1
    /\ spc = "call"
    /\ BashIdle /\ TransIdle /\ ReviewIdle /\ MainIdle /\ SettingsIdle

\* the call score := scorePlan(content)
ScorePlanCall ==
    /\ spc = "call"
    /\ score' = scorePlan(scoreArg)
    /\ spc' = "ret"
    /\ UNCHANGED scoreArg
    /\ UNCHANGED <<bashVars, transVars, reviewVars, mainVars, settingsVars>>

NextScore == ScorePlanCall

SpecScore == InitScore /\ [][NextScore]_vars


(* Claims about the plan scorer *)

\* the indicators as the specification names them
HasPlanHeading(text) ==
    \/ Contains(text, <<"#","#"," ","P","l","a","n">>)
    \/ Contains(text, <<"#","#"," ","I","m","p","l","e","m","e","n","t","a",
                        "t","i","o","n">>)
    \/ Contains(text, <<"#","#"," ","P","r","o","p","o","s","e","d"," ","A",
                        "p","p","r","o","a","c","h">>)

HasNumberedList(text) ==
    Contains(text, <<"1","."," ">>) /\ Contains(text, <<"2","."," ">>)

\* C6: scorePlan returns 0 for every text shorter than 50 characters, whatever
\* headings, list markers or keywords it contains, texts made of multi-byte
\* characters included.  (The code counts bytes: a plan heading followed by 15
\* three-byte characters has 23 characters, 53 bytes, and scores 110.)
C6_ShortTextScoresZero ==
    (spc = "ret" /\ Len(scoreArg) < 50) => score = 0

\* C7 as stated: scorePlan of the example text returns at least 120.
C7_ExampleScoresAtLeast120 ==
    (spc = "ret" /\ scoreArg = ExamplePlan) => score >= 120

\* C7, amended: the example text has 46 bytes, below the minimum of 50, and
\* scorePlan returns 0 for it; every text of at least 50 bytes that has a plan
\* heading and both list markers scores at least 120.
C7_ExampleBelowMinimumScoresZero ==
    /\ (spc = "ret" /\ scoreArg = ExamplePlan) => score = 0
    /\ (spc = "ret" /\ ByteLen(scoreArg) >= 50
          /\ HasPlanHeading(scoreArg) /\ HasNumberedList(scoreArg)) => score >= 120

C7_Witness ==
    /\ spc = "ret"
    /\ scoreArg = ExamplePlan
    /\ ByteLen(scoreArg) = 46
    /\ HasPlanHeading(scoreArg) /\ HasNumberedList(scoreArg)
    /\ score = 0


-----------------------------------------------------------------------------
(* The transcript plan selector (internal/hooks/plan_review.go) *)

(* A line of the transcript file is either raw text that is no JSON document *)
(* (kind "text": blank or malformed) or a JSON document, given by what its   *)
(* decoding finds (kind "json"): whether message.role is a JSON string, its  *)
(* value, and the value of message.content.                                  *)

\* message.content as decoded into an any: a string, an array, anything else
StringContent(s) == [type |-> "string", str |-> s, items |-> <<>>]
ArrayContent(items) == [type |-> "array", str |-> <<>>, items |-> items]
OtherContent == [type |-> "other", str |-> <<>>, items |-> <<>>]

\* the elements of a content array: an object with a string "text", an object
\* without "text", an object whose "text" is no string, an element that is no
\* object
TextBlock(s) == [object |-> TRUE, hasText |-> TRUE, textIsString |-> TRUE, text |-> s]
ToolUseBlock == [object |-> TRUE, hasText |-> FALSE, textIsString |-> FALSE, text |-> <<>>]
NumberTextBlock == [object |-> TRUE, hasText |-> TRUE, textIsString |-> FALSE, text |-> <<>>]
BareElement == [object |-> FALSE, hasText |-> FALSE, textIsString |-> FALSE, text |-> <<>>]

NoDoc == [roleIsString |-> TRUE, role |-> "", content |-> OtherContent]

TextLine(text) == [kind |-> "text", text |-> text, doc |-> NoDoc]

JSONLine(role, content) ==
    [kind |-> "json", text |-> <<>>,
     doc |-> [roleIsString |-> TRUE, role |-> role, content |-> content]]

\* a document whose message.role is a number
NumberRoleLine(content) ==
    [kind |-> "json", text |-> <<>>,
     doc |-> [roleIsString |-> FALSE, role |-> "", content |-> content]]

\* strings.TrimSpace(line) == ""
IsBlankLine(line) == line.kind = "text" /\ TrimSpace(line.text) = <<>>

\* json.Unmarshal([]byte(line), &entry): an error for text that is no JSON
\* document and for a role that is no string, else the decoded TranscriptEntry
jsonUnmarshal(line) ==
    IF line.kind = "text" \/ ~line.doc.roleIsString
    THEN [ok |-> FALSE, entry |-> [Message |-> [Role |-> "", Content |-> OtherContent]]]
    ELSE [ok |-> TRUE,
          entry |-> [Message |-> [Role |-> line.doc.role, Content |-> line.doc.content]]]

\* strings.Join
RECURSIVE Join(_, _)
Join(parts, sep) ==
    IF Len(parts) = 0 THEN <<>>
    ELSE IF Len(parts) = 1 THEN parts[1]
    ELSE parts[1] \o sep \o Join(Tail(parts), sep)

\* the type assertions of extractContentString on one element of the array
IsTextBlock(item) == item.object /\ item.hasText /\ item.textIsString

extractContentString(content) ==
    IF content.type = "string" THEN content.str
    ELSE IF content.type = "array"
    THEN LET blocks == SelectSeq(content.items, IsTextBlock)
         IN Join([i \in 1..Len(blocks) |-> blocks[i].text], <<"\n">>)
    ELSE <<>>

\* the best candidate is kept whatever the role of the entry
IsAnyRole(entry) == TRUE

\* entry.Message.Role == "assistant"
IsAssistant(entry) == entry.Message.Role = "assistant"

\* a later candidate replaces the best one only with a higher score
KeepsCandidateStrict(candidate, best) == candidate > 0 /\ candidate > best

\* score > 0 && score >= bestScore
KeepsCandidate(candidate, best) == candidate > 0 /\ candidate >= best

\* whether the loop body gives the text of the line to scorePlan
ScoresLine(line) ==
    /\ ~IsBlankLine(line)
    /\ jsonUnmarshal(line).ok
    /\ IsAssistant(jsonUnmarshal(line).entry)

\* a mutation of the loop body: a line that cannot be decoded makes the scan
\* forget the candidate retained so far
ScanLineForgetsOnMalformed(line, best) ==
    IF IsBlankLine(line) THEN best
    ELSE LET decoded == jsonUnmarshal(line) IN
         IF ~decoded.ok THEN [bestPlan |-> <<>>, bestScore |-> 0]
         ELSE IF IsAssistant(decoded.entry)
         THEN LET text == extractContentString(decoded.entry.Message.Content)
                  candidate == scorePlan(text)
              IN IF KeepsCandidate(candidate, best.bestScore)
                 THEN [bestPlan |-> text, bestScore |-> candidate]
                 ELSE best
         ELSE best


\* the body of "for _, line := range lines": bestPlan and bestScore after it
ScanLine(line, best) ==
    IF IsBlankLine(line) THEN best
    ELSE LET decoded == jsonUnmarshal(line) IN
         IF ~decoded.ok THEN best
         ELSE IF IsAssistant(decoded.entry)
         THEN LET text == extractContentString(decoded.entry.Message.Content)
                  candidate == scorePlan(text)
              IN IF KeepsCandidate(candidate, best.bestScore)
                 THEN [bestPlan |-> text, bestScore |-> candidate]
                 ELSE best
         ELSE best

\* the loop from line i on
RECURSIVE ScanLines(_, _, _)
ScanLines(lines, i, best) ==
    IF i > Len(lines) THEN best
    ELSE ScanLines(lines, i + 1, ScanLine(lines[i], best))

ReadError == [ok |-> FALSE, plan |-> <<>>, err |-> "failed to read transcript"]

\* the return statements after the loop
PlanOrNotFound(best) ==
    IF best = <<>>
    THEN [ok |-> FALSE, plan |-> <<>>, err |-> "no plan content found in transcript"]
    ELSE [ok |-> TRUE, plan |-> best, err |-> ""]

\* the whole function, for a file that can or cannot be read
extractPlanFromTranscript(file) ==
    IF ~file.readable THEN ReadError
    ELSE PlanOrNotFound(ScanLines(file.lines, 1,
                                  [bestPlan |-> <<>>, bestScore |-> 0]).bestPlan)

(* The transcripts *)

\* an alias of the detailed plan of 60 bytes: heading, list, plan, step
DetailedPlan == ExamplePlanLong

\* a second plan with the same indicators
RevisedPlan ==
    <<"#","#"," ","P","l","a","n","\n","1","."," ","S","t","e","p"," ","o",
      "n","e",":"," ","p","a","r","s","e","\n","2","."," ","S","t","e","p",
      " ","t","w","o",":"," ","c","l","a","s","s","i","f","y"," ","a","n","d",
      " ","t","e","s","t">>

\* a plan with every indicator
ChecklistPlan ==
    <<"#","#"," ","P","l","a","n","\n","-"," ","["," ","]"," ","1","."," ",
      "S","t","e","p"," ","o","n","e","\n","-"," ","["," ","]"," ","2",".",
      " ","S","t","e","p"," ","t","w","o",","," ","t","h","e","n"," ","r","e",
      "v","i","e","w">>

\* structured content: two text blocks among elements without text
PlanBlocks ==
    << TextBlock(<<"T","h","e"," ","p","l","a","n"," ","h","a","s"," ","t",
                   "h","e"," ","f","o","l","l","o","w","i","n","g"," ","s",
                   "t","e","p","s">>),
       ToolUseBlock, NumberTextBlock, BareElement,
       TextBlock(<<"t","o"," ","b","e"," ","d","o","n","e"," ","i","n"," ",
                   "t","h","i","s"," ","o","r","d","e","r">>) >>

TranscriptLines ==
    { TextLine(<<" ">>),
      TextLine(<<"{","o","o","p","s">>),
      JSONLine("assistant", StringContent(DetailedPlan)),
      JSONLine("assistant", StringContent(RevisedPlan)),
      JSONLine("assistant", StringContent(FillerText)),
      JSONLine("assistant", ArrayContent(PlanBlocks)),
      JSONLine("assistant", OtherContent),
      JSONLine("user", StringContent(ChecklistPlan)),
      NumberRoleLine(StringContent(ChecklistPlan)) }

Transcripts == UNION {[1..n -> TranscriptLines] : n \in 0..MaxLines}

InitTranscript ==
    /\ transcript \in Transcripts
    /\ tpc = "read"
    /\ tpos = 0
    /\ bestPlan = <<>>
    /\ bestScore = 0
    /\ scored = {}
    /\ extracted = [ok |-> FALSE, plan |-> <<>>, err |-> ""]
    /\ BashIdle /\ ScoreIdle /\ ReviewIdle /\ MainIdle /\ SettingsIdle

\* os.ReadFile and strings.Split(string(data), "\n")
TranscriptRead ==
    /\ tpc = "read"
    /\ \E readable \in BOOLEAN :
         IF readable
         THEN tpc' = "scan" /\ tpos' = 1 /\ UNCHANGED extracted
         ELSE tpc' = "ret" /\ extracted' = ReadError /\ UNCHANGED tpos
    /\ UNCHANGED <<transcript, bestPlan, bestScore, scored>>
    /\ UNCHANGED <<bashVars, scoreVars, reviewVars, mainVars, settingsVars>>

\* one iteration of the loop over the lines
TranscriptScanLine ==
    /\ tpc = "scan"
    /\ tpos <= Len(transcript)
    /\ LET best == ScanLine(transcript[tpos],
                            [bestPlan |-> bestPlan, bestScore |-> bestScore])
       IN /\ bestPlan' = best.bestPlan
          /\ bestScore' = best.bestScore
    /\ scored' = IF ScoresLine(transcript[tpos]) THEN scored \cup {tpos} ELSE scored
    /\ tpos' = tpos + 1
    /\ UNCHANGED <<transcript, tpc, extracted>>
    /\ UNCHANGED <<bashVars, scoreVars, reviewVars, mainVars, settingsVars>>

\* the end of the loop and the return
TranscriptReturn ==
    /\ tpc = "scan"
    /\ tpos > Len(transcript)
    /\ extracted' = PlanOrNotFound(bestPlan)
    /\ tpc' = "ret"
    /\ UNCHANGED <<transcript, tpos, bestPlan, bestScore, scored>>
    /\ UNCHANGED <<bashVars, scoreVars, reviewVars, mainVars, settingsVars>>

NextTranscript == TranscriptRead \/ TranscriptScanLine \/ TranscriptReturn

SpecTranscript == InitTranscript /\ [][NextTranscript]_vars

(* Claims about the transcript plan selector *)

\* an assistant turn: a line that is a JSON document with the role assistant
IsAssistantTurn(line) ==
    line.kind = "json" /\ line.doc.roleIsString /\ line.doc.role = "assistant"

TurnText(line) == extractContentString(line.doc.content)

TurnScore(line) == scorePlan(TurnText(line))

\* the score of every line that is an assistant turn, 0 for the other lines
\* (the concatenation makes the sequence an explicit tuple)
TurnScores ==
    [i \in 1..Len(transcript) |->
        IF IsAssistantTurn(transcript[i]) THEN TurnScore(transcript[i]) ELSE 0] \o <<>>

\* the assistant turns with a positive score among the first n lines
Candidates(scores, n) == {i \in 1..n : scores[i] > 0}

TopScore(scores, n) ==
    IF Candidates(scores, n) = {} THEN 0
    ELSE Max({scores[i] : i \in Candidates(scores, n)})

\* the last of the candidates with the highest score
LastTop(scores, n) ==
    LET top == TopScore(scores, n) IN
    Max({i \in Candidates(scores, n) : scores[i] = top})

\* the file has been read and the scan has gone over tpos - 1 lines
Scanning == tpc \in {"scan", "ret"} /\ tpos >= 1

SelectsLastHighest ==
    Scanning =>
      \A scores \in {TurnScores} :
      /\ bestScore = TopScore(scores, tpos - 1)
      /\ Candidates(scores, tpos - 1) # {}
           => bestPlan = TurnText(transcript[LastTop(scores, tpos - 1)])
      /\ Candidates(scores, tpos - 1) = {} => bestPlan = <<>>
      /\ (tpc = "ret" /\ extracted.ok)
           => extracted.plan = TurnText(transcript[LastTop(scores, Len(transcript))])

\* C8: at every point of the scan the retained plan is the text of the assistant
\* turn with the highest positive score among the lines scanned, the last one
\* among those with that score, and this is the plan returned; the retained
\* best score never decreases.
C8_SelectsLastHighestNeverDecreasing ==
    [](SelectsLastHighest) /\ [][bestScore' >= bestScore]_vars

\* a returned plan that is the second of two equally scored different plans,
\* with a later assistant turn of lower score
C8_Witness ==
    /\ tpc = "ret" /\ extracted.ok
    /\ \E scores \in {TurnScores} :
       \E i, j, k \in 1..Len(transcript) :
         /\ i < j /\ j < k
         /\ scores[i] > 0 /\ scores[i] = scores[j] /\ scores[j] > scores[k]
         /\ IsAssistantTurn(transcript[k])
         /\ TurnText(transcript[i]) # TurnText(transcript[j])
         /\ extracted.plan = TurnText(transcript[j])

\* C9: once the file is read, the not-found error is returned exactly when no
\* assistant turn scores above 0; only assistant turns are given to scorePlan;
\* a returned plan is the extracted text of one assistant turn.
C9_NotFoundIffNoAssistantScores ==
    /\ \A i \in scored : IsAssistantTurn(transcript[i])
    /\ (tpc = "ret" /\ tpos >= 1) =>
         \A none \in {Candidates(TurnScores, Len(transcript)) = {}} :
         /\ (~extracted.ok /\ extracted.err = "no plan content found in transcript")
              <=> none
         /\ extracted.ok <=> ~none
         /\ extracted.ok =>
              \E i \in 1..Len(transcript) :
                 /\ IsAssistantTurn(transcript[i])
                 /\ extracted.plan = TurnText(transcript[i])

\* the not-found error for a transcript whose only plan-like text is a user's
C9_Witness ==
    /\ tpc = "ret" /\ tpos >= 1
    /\ ~extracted.ok /\ extracted.err = "no plan content found in transcript"
    /\ \E i, j \in 1..Len(transcript) :
         /\ transcript[i].kind = "json" /\ transcript[i].doc.role = "user"
         /\ scorePlan(TurnText(transcript[i])) > 0
         /\ IsAssistantTurn(transcript[j])
    /\ scored # {}


-----------------------------------------------------------------------------
(* The parallel reviewer fan-out (internal/hooks/plan_review.go, ReviewPlan) *)

\* characters outside ASCII that the messages use
Warn == "WARN"
Clipboard == "CLIPBOARD"
Check == "CHECK"
Brain == "BRAIN"

\* reviews := make([]AIReview, 3); wg.Add(3)
NumReviewers == 3

\* the zero value of AIReview
ZeroReview == [Model |-> <<>>, Feedback |-> <<>>, Error |-> <<>>, Duration |-> <<>>]

(* What cmd.Run() of a reviewer ends with: the text of the error (empty for *)
(* nil), whether the deadline of the context has expired, the output of the *)
(* process, and the rounded time it took.                                    *)

Succeeded(executable) ==
    [ran |-> TRUE, err |-> <<>>, deadline |-> FALSE,
     stdout |-> <<"\n"," "," ","L","o","o","k","s"," ","s","o","l","i","d",
                  ","," ","s","a","y","s"," ">> \o executable \o 
         <<"."," ","\n">>,
     stderr |-> <<>>, duration |-> <<"3","s">>]

ExitedNonZero ==
    [ran |-> TRUE, err |-> <<"e","x","i","t"," ","s","t","a","t","u","s"," ",
                             "1">>, deadline |-> FALSE,
     stdout |-> <<>>, stderr |-> <<"q","u","o","t","a"," ","e","x","c","e",
                                   "e","d","e","d">>, duration |-> 
         <<"1","s">>]

TimedOut(limit) ==
    [ran |-> TRUE, err |-> <<"s","i","g","n","a","l",":"," ","k","i","l","l",
                             "e","d">>, deadline |-> TRUE,
     stdout |-> <<"p","a","r","t","i","a","l">>, stderr |-> <<>>, duration |-> limit]

NotInstalled(executable) ==
    [ran |-> TRUE,
     err |-> <<"e","x","e","c",":"," ","\"">> \o executable \o 
         <<"\"",":"," ","e","x","e","c","u","t","a","b","l","e"," ","f","i",
           "l","e"," ","n","o","t"," ","f","o","u","n","d"," ","i","n"," ",
           "$","P","A","T","H">>,
     deadline |-> FALSE, stdout |-> <<>>, stderr |-> <<>>, duration |-> 
         <<"0","s">>]

\* the executables and the deadlines of the three reviewers
Executables == << <<"c","l","a","u","d","e">>, 
    <<"c","o","d","e","x">>, <<"g","e","m","i","n","i">> >>
Limits == << <<"2","m","0","s">>, <<"2","m","0","s">>, 
    <<"1","m","0","s">> >>

ProcessOutcomes(i) ==
    {Succeeded(Executables[i]), ExitedNonZero, TimedOut(Limits[i]),
     NotInstalled(Executables[i])}

ExecutableFileNotFound == <<"e","x","e","c","u","t","a","b","l","e"," ","f",
                            "i","l","e"," ","n","o","t"," ","f","o","u","n",
                            "d">>

\* runClaudeReview whose not-installed branch records no error
runClaudeReviewNoError(out) ==
    LET review == [ZeroReview EXCEPT !.Model = 
        <<"C","l","a","u","d","e"," ","O","p","u","s"," ","4",".","5">>,
                                     !.Duration = out.duration]
    IN IF out.err # <<>>
       THEN IF Contains(out.err, ExecutableFileNotFound)
            THEN [review EXCEPT !.Feedback = 
                <<"C","l","a","u","d","e"," ","C","L","I"," ","n","o","t"," ",
                  "a","v","a","i","l","a","b","l","e">>]
            ELSE IF out.deadline
            THEN [review EXCEPT
                    !.Error = <<"C","l","a","u","d","e"," ","r","e","v","i",
                                "e","w"," ","t","i","m","e","d"," ","o","u",
                                "t"," ","(","2","m",")">>,
                    !.Feedback = <<Warn>> \o 
                        <<" ","C","l","a","u","d","e"," ","r","e","v","i","e",
                          "w"," ","t","i","m","e","d"," ","o","u","t">>]
            ELSE [review EXCEPT
                    !.Error = <<"C","l","a","u","d","e"," ","r","e","v","i",
                                "e","w"," ","f","a","i","l","e","d",":"," ">> \o out.err \o 
                        <<" ","-"," ">> \o out.stderr,
                    !.Feedback = <<Warn>> \o 
                        <<" ","C","l","a","u","d","e"," ","r","e","v","i","e",
                          "w"," ","f","a","i","l","e","d"," ","-"," ","s","e",
                          "e"," ","e","r","r","o","r">>]
       ELSE [review EXCEPT !.Feedback = TrimSpace(out.stdout)]

runClaudeReview(out) ==
    LET review == [ZeroReview EXCEPT !.Model = 
        <<"C","l","a","u","d","e"," ","O","p","u","s"," ","4",".","5">>,
                                     !.Duration = out.duration]
    IN IF out.err # <<>>
       THEN IF Contains(out.err, ExecutableFileNotFound)
            THEN [review EXCEPT
                    !.Error = <<"C","l","a","u","d","e"," ","C","L","I"," ",
                                "n","o","t"," ","i","n","s","t","a","l","l",
                                "e","d"," ","(","n","p","m"," ","i","n","s",
                                "t","a","l","l"," ","-","g"," ","@","a","n",
                                "t","h","r","o","p","i","c","-","a","i","/",
                                "c","l","a","u","d","e","-","c","o","d","e",
                                ")">>,
                    !.Feedback = <<Warn>> \o 
                        <<" ","C","l","a","u","d","e"," ","C","L","I"," ","n",
                          "o","t"," ","a","v","a","i","l","a","b","l","e"," ",
                          "-"," ","i","n","s","t","a","l","l"," ","w","i","t",
                          "h",":"," ","n","p","m"," ","i","n","s","t","a","l",
                          "l"," ","-","g"," ","@","a","n","t","h","r","o","p",
                          "i","c","-","a","i","/","c","l","a","u","d","e","-",
                          "c","o","d","e">>]
            ELSE IF out.deadline
            THEN [review EXCEPT
                    !.Error = <<"C","l","a","u","d","e"," ","r","e","v","i",
                                "e","w"," ","t","i","m","e","d"," ","o","u",
                                "t"," ","(","2","m",")">>,
                    !.Feedback = <<Warn>> \o 
                        <<" ","C","l","a","u","d","e"," ","r","e","v","i","e",
                          "w"," ","t","i","m","e","d"," ","o","u","t">>]
            ELSE [review EXCEPT
                    !.Error = <<"C","l","a","u","d","e"," ","r","e","v","i",
                                "e","w"," ","f","a","i","l","e","d",":"," ">> \o out.err \o 
                        <<" ","-"," ">> \o out.stderr,
                    !.Feedback = <<Warn>> \o 
                        <<" ","C","l","a","u","d","e"," ","r","e","v","i","e",
                          "w"," ","f","a","i","l","e","d"," ","-"," ","s","e",
                          "e"," ","e","r","r","o","r">>]
       ELSE [review EXCEPT !.Feedback = TrimSpace(out.stdout)]

runCodexReview(out) ==
    LET review == [ZeroReview EXCEPT !.Model = 
        <<"o","3"," ","(","C","o","d","e","x",")">>,
                                     !.Duration = out.duration]
    IN IF out.err # <<>>
       THEN IF Contains(out.err, ExecutableFileNotFound)
            THEN [review EXCEPT
                    !.Error = <<"C","o","d","e","x"," ","C","L","I"," ","n",
                                "o","t"," ","i","n","s","t","a","l","l","e",
                                "d">>,
                    !.Feedback = <<Warn>> \o 
                        <<" ","C","o","d","e","x"," ","C","L","I"," ","n","o",
                          "t"," ","a","v","a","i","l","a","b","l","e"," ","-",
                          " ","i","n","s","t","a","l","l"," ","O","p","e","n",
                          "A","I","'","s"," ","C","o","d","e","x"," ","C","L",
                          "I">>]
            ELSE IF out.deadline
            THEN [review EXCEPT
                    !.Error = <<"C","o","d","e","x"," ","r","e","v","i","e",
                                "w"," ","t","i","m","e","d"," ","o","u","t",
                                " ","(","2","m",")">>,
                    !.Feedback = <<Warn>> \o 
                        <<" ","C","o","d","e","x"," ","r","e","v","i","e","w",
                          " ","t","i","m","e","d"," ","o","u","t">>]
            ELSE [review EXCEPT
                    !.Error = <<"C","o","d","e","x"," ","r","e","v","i","e",
                                "w"," ","f","a","i","l","e","d",":"," ">> \o out.err \o 
                        <<" ","-"," ">> \o out.stderr,
                    !.Feedback = <<Warn>> \o 
                        <<" ","C","o","d","e","x"," ","r","e","v","i","e","w",
                          " ","f","a","i","l","e","d"," ","-"," ","s","e","e",
                          " ","e","r","r","o","r">>]
       ELSE [review EXCEPT !.Feedback = TrimSpace(out.stdout)]

\* a mutation of runGeminiReview without the test of the deadline: an expired
\* deadline is recorded as a failure of the process
runGeminiReviewNoDeadlineTest(out) ==
    LET review == [ZeroReview EXCEPT !.Model = 
        <<"G","e","m","i","n","i"," ","3"," ","P","r","o">>,
                                     !.Duration = out.duration]
    IN IF out.err # <<>>
       THEN IF Contains(out.err, ExecutableFileNotFound)
            THEN [review EXCEPT
                    !.Error = <<"G","e","m","i","n","i"," ","C","L","I"," ",
                                "n","o","t"," ","i","n","s","t","a","l","l",
                                "e","d">>,
                    !.Feedback = <<Warn>> \o
                        <<" ","G","e","m","i","n","i"," ","C","L","I"," ","n",
                          "o","t"," ","a","v","a","i","l","a","b","l","e"," ",
                          "-"," ","i","n","s","t","a","l","l"," ","G","o","o",
                          "g","l","e","'","s"," ","G","e","m","i","n","i"," ",
                          "C","L","I">>]
            ELSE [review EXCEPT
                    !.Error = <<"G","e","m","i","n","i"," ","r","e","v","i",
                                "e","w"," ","f","a","i","l","e","d",":"," ">> \o out.err \o
                        <<" ","-"," ">> \o out.stderr,
                    !.Feedback = <<Warn>> \o
                        <<" ","G","e","m","i","n","i"," ","r","e","v","i","e",
                          "w"," ","f","a","i","l","e","d"," ","-"," ","s","e",
                          "e"," ","e","r","r","o","r">>]
       ELSE [review EXCEPT !.Feedback = TrimSpace(out.stdout)]


runGeminiReview(out) ==
    LET review == [ZeroReview EXCEPT !.Model = 
        <<"G","e","m","i","n","i"," ","3"," ","P","r","o">>,
                                     !.Duration = out.duration]
    IN IF out.err # <<>>
       THEN IF Contains(out.err, ExecutableFileNotFound)
            THEN [review EXCEPT
                    !.Error = <<"G","e","m","i","n","i"," ","C","L","I"," ",
                                "n","o","t"," ","i","n","s","t","a","l","l",
                                "e","d">>,
                    !.Feedback = <<Warn>> \o 
                        <<" ","G","e","m","i","n","i"," ","C","L","I"," ","n",
                          "o","t"," ","a","v","a","i","l","a","b","l","e"," ",
                          "-"," ","i","n","s","t","a","l","l"," ","G","o","o",
                          "g","l","e","'","s"," ","G","e","m","i","n","i"," ",
                          "C","L","I">>]
            ELSE IF out.deadline
            THEN [review EXCEPT
                    !.Error = <<"G","e","m","i","n","i"," ","r","e","v","i",
                                "e","w"," ","t","i","m","e","d"," ","o","u",
                                "t"," ","(","6","0","s",")">>,
                    !.Feedback = <<Warn>> \o 
                        <<" ","G","e","m","i","n","i"," ","r","e","v","i","e",
                          "w"," ","t","i","m","e","d"," ","o","u","t">>]
            ELSE [review EXCEPT
                    !.Error = <<"G","e","m","i","n","i"," ","r","e","v","i",
                                "e","w"," ","f","a","i","l","e","d",":"," ">> \o out.err \o 
                        <<" ","-"," ">> \o out.stderr,
                    !.Feedback = <<Warn>> \o 
                        <<" ","G","e","m","i","n","i"," ","r","e","v","i","e",
                          "w"," ","f","a","i","l","e","d"," ","-"," ","s","e",
                          "e"," ","e","r","r","o","r">>]
       ELSE [review EXCEPT !.Feedback = TrimSpace(out.stdout)]

\* the function goroutine i calls
runReview(i, out) ==
    IF i = 1 THEN runClaudeReview(out)
    ELSE IF i = 2 THEN runCodexReview(out)
    ELSE runGeminiReview(out)

\* fmt.Sprintf("%d", n) for the counts that occur
Digit(n) == << <<"0">>, <<"1">>, <<"2">>, <<"3">> >>[n + 1]

\* a count of all reviews, failed ones included
SuccessCountAll(rs) == Len(rs)


\* the first loop of buildReviewSummary
SuccessCount(rs) == Cardinality({i \in 1..Len(rs) : rs[i].Error = <<>>})

\* what the second loop of buildReviewSummary writes for reviews[i]
SummarySection(rs, i) ==
    LET r == rs[i]
        icon == IF r.Error # <<>> THEN <<Warn>> ELSE <<Check>>
    IN <<"#","#","#"," ">> \o icon \o <<" ">> \o r.Model \o 
        <<" ","(">> \o r.Duration \o <<")","\n","\n">>
       \o (IF r.Error # <<>> THEN <<"*","E","r","r","o","r",":"," ">> \o r.Error \o 
           <<"*","\n","\n">> ELSE <<>>)
       \o r.Feedback
       \o <<"\n","\n">>
       \o (IF i < Len(rs) THEN <<"-","-","-","\n","\n">> ELSE <<>>)

buildReviewSummary(rs) ==
    <<"#","#"," ">> \o <<Brain>> \o <<" ","A","I"," ","C","o","u","n","c","i",
                                      "l"," ","P","l","a","n"," ","R","e","v",
                                      "i","e","w","\n","\n">>
    \o <<"Y","o","u","r"," ","p","l","a","n"," ","h","a","s"," ","b","e","e",
         "n"," ","r","e","v","i","e","w","e","d"," ","b","y"," ","t","h","r",
         "e","e"," ","A","I"," ","m","o","d","e","l","s","."," ","C","o","n",
         "s","i","d","e","r"," ","t","h","e","i","r"," ","f","e","e","d","b",
         "a","c","k"," ","b","e","f","o","r","e"," ","f","i","n","a","l","i",
         "z","i","n","g",".","\n","\n">>
    \o <<"*","*","R","e","v","i","e","w","s"," ","c","o","m","p","l","e","t",
         "e","d",":","*","*"," ">> \o Digit(SuccessCount(rs)) \o 
        <<"/","3","\n","\n">>
    \o <<"-","-","-","\n","\n">>
    \o Concat([i \in 1..Len(rs) |-> SummarySection(rs, i)])

(* The inputs of ReviewPlan and the transcript files it may find *)

ReviewInputs ==
    { [PlanContent |-> p, TranscriptPath |-> t] :
        p \in {<<>>, RevisedPlan}, t \in {"", "transcript.jsonl"} }

TranscriptFiles ==
    { [readable |-> FALSE, lines |-> <<>>],
      [readable |-> TRUE,
       lines |-> << JSONLine("assistant", StringContent(DetailedPlan)),
                    JSONLine("user", StringContent(ChecklistPlan)),
                    JSONLine("assistant", StringContent(FillerText)) >>],
      [readable |-> TRUE,
       lines |-> << JSONLine("user", StringContent(ChecklistPlan)) >>] }

NoResult == [ok |-> FALSE, Reviews |-> <<>>, Summary |-> <<>>, err |-> ""]

InitReview ==
    /\ input \in ReviewInputs
    /\ rpc = "start"
    /\ plan = <<>>
    /\ spawned = 0
    /\ wg = 0
    /\ gpc = <<"none", "none", "none">>
    /\ outcome = <<NoOutcome, NoOutcome, NoOutcome>>
    /\ reviews = <<>>
    /\ writes = <<>>
    /\ result = NoResult
    /\ BashIdle /\ ScoreIdle /\ TransIdle /\ MainIdle /\ SettingsIdle

\* ReviewPlan up to wg.Add(3): the plan is taken from the input or from the
\* transcript; without a plan the function returns an error
ReviewPlanStart ==
    /\ rpc = "start"
    /\ \E file \in TranscriptFiles :
         LET fromTranscript == input.PlanContent = <<>> /\ input.TranscriptPath # ""
             found == IF fromTranscript THEN extractPlanFromTranscript(file)
                      ELSE [ok |-> TRUE, plan |-> input.PlanContent, err |-> ""]
         IN IF ~found.ok
            THEN /\ result' = [NoResult EXCEPT !.err = "failed to extract plan"]
                 /\ rpc' = "ret"
                 /\ UNCHANGED <<plan, reviews, wg>>
            ELSE IF found.plan = <<>>
            THEN /\ result' = [NoResult EXCEPT !.err = "no plan content found to review"]
                 /\ rpc' = "ret"
                 /\ UNCHANGED <<plan, reviews, wg>>
            ELSE /\ plan' = found.plan
                 /\ reviews' = [i \in 1..NumReviewers |-> ZeroReview]
                 /\ wg' = NumReviewers
                 /\ rpc' = "spawn"
                 /\ UNCHANGED result
    /\ UNCHANGED <<input, spawned, gpc, outcome, writes>>
    /\ UNCHANGED <<bashVars, scoreVars, transVars, mainVars, settingsVars>>

\* the next go statement
Spawn ==
    /\ rpc = "spawn"
    /\ spawned < NumReviewers
    /\ spawned' = spawned + 1
    /\ gpc' = [gpc EXCEPT ![spawned + 1] = "ready"]
    /\ rpc' = IF spawned + 1 = NumReviewers THEN "wait" ELSE "spawn"
    /\ UNCHANGED <<input, plan, wg, outcome, reviews, writes, result>>
    /\ UNCHANGED <<bashVars, scoreVars, transVars, mainVars, settingsVars>>

\* goroutine i calls its review function, which starts the external process
GoStart(i) ==
    /\ gpc[i] = "ready"
    /\ gpc' = [gpc EXCEPT ![i] = "running"]
    /\ UNCHANGED <<input, rpc, plan, spawned, wg, outcome, reviews, writes, result>>
    /\ UNCHANGED <<bashVars, scoreVars, transVars, mainVars, settingsVars>>

\* cmd.Run() of goroutine i returns; a failure also ends the processes of the
\* other goroutines that are still running, as one shared context would
GoAssignCancelsOthers(i) ==
    /\ gpc[i] = "running"
    /\ \E out \in ProcessOutcomes(i) :
         LET cancelled == {j \in 1..NumReviewers :
                             j # i /\ out.err # <<>> /\ gpc[j] = "running"}
             ended == [j \in 1..NumReviewers |->
                         IF j = i THEN out
                         ELSE IF j \in cancelled THEN TimedOut(Limits[j])
                         ELSE outcome[j]]
         IN /\ outcome' = ended
            /\ reviews' = [j \in 1..NumReviewers |->
                             IF j = i \/ j \in cancelled
                             THEN runReview(j, ended[j]) ELSE reviews[j]]
            /\ gpc' = [j \in 1..NumReviewers |->
                         IF j = i \/ j \in cancelled THEN "assigned" ELSE gpc[j]]
    /\ writes' = Append(writes, i)
    /\ UNCHANGED <<input, rpc, plan, spawned, wg, result>>
    /\ UNCHANGED <<bashVars, scoreVars, transVars, mainVars, settingsVars>>


\* cmd.Run() of goroutine i returns; the review is put in the next free slot
GoAssignInCompletionOrder(i) ==
    /\ gpc[i] = "running"
    /\ \E out \in ProcessOutcomes(i) :
         /\ outcome' = [outcome EXCEPT ![i] = out]
         /\ reviews' = [reviews EXCEPT ![Len(writes) + 1] = runReview(i, out)]
    /\ writes' = Append(writes, i)
    /\ gpc' = [gpc EXCEPT ![i] = "assigned"]
    /\ UNCHANGED <<input, rpc, plan, spawned, wg, result>>
    /\ UNCHANGED <<bashVars, scoreVars, transVars, mainVars, settingsVars>>


\* cmd.Run() of goroutine i returns; every goroutine writes the first slot
GoAssignFirstSlot(i) ==
    /\ gpc[i] = "running"
    /\ \E out \in ProcessOutcomes(i) :
         /\ outcome' = [outcome EXCEPT ![i] = out]
         /\ reviews' = [reviews EXCEPT ![1] = runReview(i, out)]
    /\ writes' = Append(writes, i)
    /\ gpc' = [gpc EXCEPT ![i] = "assigned"]
    /\ UNCHANGED <<input, rpc, plan, spawned, wg, result>>
    /\ UNCHANGED <<bashVars, scoreVars, transVars, mainVars, settingsVars>>


\* cmd.Run() of goroutine i returns; reviews[i] = the review built from it
GoAssign(i) ==
    /\ gpc[i] = "running"
    /\ \E out \in ProcessOutcomes(i) :
         /\ outcome' = [outcome EXCEPT ![i] = out]
         /\ reviews' = [reviews EXCEPT ![i] = runReview(i, out)]
    /\ writes' = Append(writes, i)
    /\ gpc' = [gpc EXCEPT ![i] = "assigned"]
    /\ UNCHANGED <<input, rpc, plan, spawned, wg, result>>
    /\ UNCHANGED <<bashVars, scoreVars, transVars, mainVars, settingsVars>>

\* goroutine i ends, calling wg.Done() only when its review has no error
GoDoneUnlessFailed(i) ==
    /\ gpc[i] = "assigned"
    /\ wg' = IF reviews[i].Error = <<>> THEN wg - 1 ELSE wg
    /\ gpc' = [gpc EXCEPT ![i] = "done"]
    /\ UNCHANGED <<input, rpc, plan, spawned, outcome, reviews, writes, result>>
    /\ UNCHANGED <<bashVars, scoreVars, transVars, mainVars, settingsVars>>


\* defer wg.Done() of goroutine i
GoDone(i) ==
    /\ gpc[i] = "assigned"
    /\ wg' = wg - 1
    /\ gpc' = [gpc EXCEPT ![i] = "done"]
    /\ UNCHANGED <<input, rpc, plan, spawned, outcome, reviews, writes, result>>
    /\ UNCHANGED <<bashVars, scoreVars, transVars, mainVars, settingsVars>>

\* wg.Wait() that returns as soon as one goroutine is done
WaitAndReturnAfterFirst ==
    /\ rpc = "wait"
    /\ wg < NumReviewers
    /\ result' = [ok |-> TRUE, Reviews |-> reviews,
                  Summary |-> buildReviewSummary(reviews), err |-> ""]
    /\ rpc' = "ret"
    /\ UNCHANGED <<input, plan, spawned, wg, gpc, outcome, reviews, writes>>
    /\ UNCHANGED <<bashVars, scoreVars, transVars, mainVars, settingsVars>>


\* wg.Wait() returns; the result is built and returned
WaitAndReturn ==
    /\ rpc = "wait"
    /\ wg = 0
    /\ result' = [ok |-> TRUE, Reviews |-> reviews,
                  Summary |-> buildReviewSummary(reviews), err |-> ""]
    /\ rpc' = "ret"
    /\ UNCHANGED <<input, plan, spawned, wg, gpc, outcome, reviews, writes>>
    /\ UNCHANGED <<bashVars, scoreVars, transVars, mainVars, settingsVars>>

NextReview ==
    \/ ReviewPlanStart
    \/ Spawn
    \/ \E i \in 1..NumReviewers : GoStart(i)
    \/ \E i \in 1..NumReviewers : GoAssign(i)
    \/ \E i \in 1..NumReviewers : GoDone(i)
    \/ WaitAndReturn

SpecReview == InitReview /\ [][NextReview]_vars

\* ReviewPlan under a fair scheduler and with external processes that exit or
\* are killed at their deadline: the function and each goroutine keep taking
\* their next step, and cmd.Run() of each reviewer returns
SpecReviewFair ==
    /\ InitReview /\ [][NextReview]_vars
    /\ WF_vars(ReviewPlanStart \/ Spawn \/ WaitAndReturn)
    /\ \A i \in 1..NumReviewers : WF_vars(GoStart(i) \/ GoAssign(i) \/ GoDone(i))


(* Claims about the reviewer fan-out *)

\* the external tool of reviewer i is not installed
ToolAbsent(i) == outcome[i] = NotInstalled(Executables[i])

\* C10: once a plan is available ReviewPlan returns exactly three review
\* outcomes, whatever the results of the three reviewers; when all three tools
\* are absent each outcome has a non-empty error and a feedback that contains
\* installation guidance.
C10_AlwaysThreeOutcomes ==
    (rpc = "ret" /\ plan # <<>>) =>
       /\ result.ok
       /\ Len(result.Reviews) = 3
       /\ \A i \in 1..3 : outcome[i] \in ProcessOutcomes(i)
       /\ \A i \in 1..3 : result.Reviews[i].Model # <<>>
       /\ (\A i \in 1..3 : ToolAbsent(i)) =>
            \A i \in 1..3 :
               /\ result.Reviews[i].Error # <<>>
               /\ Contains(result.Reviews[i].Feedback, 
                   <<"i","n","s","t","a","l","l">>)

\* ReviewPlan has returned and all three tools were absent
C10_Witness ==
    /\ rpc = "ret" /\ plan # <<>>
    /\ \A i \in 1..3 : ToolAbsent(i)
    /\ Len(result.Reviews) = 3
    /\ \A i \in 1..3 : result.Reviews[i].Error # <<>>


\* C11: ReviewPlan has built the summary and returned a result only when all
\* three reviewer tasks have completed; while a task has not completed there is
\* no result and no summary, whatever the tasks completed so far ended with.
C11_WaitsForAll ==
    /\ result.ok =>
         /\ rpc = "ret"
         /\ wg = 0
         /\ \A i \in 1..3 : gpc[i] = "done" /\ outcome[i].ran
    /\ (\E i \in 1..3 : gpc[i] # "done") =>
         /\ ~result.ok
         /\ result.Summary = <<>>
         /\ result.Reviews = <<>>

\* the result exists although the task that completed first had failed
C11_Witness ==
    /\ rpc = "ret" /\ result.ok
    /\ writes = <<3, 1, 2>>
    /\ outcome[3] = NotInstalled(Executables[3])
    /\ outcome[1] = Succeeded(Executables[1])
    /\ \A i \in 1..3 : gpc[i] = "done"


\* what the external process of a reviewer ended with
OutcomeKind(out) ==
    IF ~out.ran THEN "none"
    ELSE IF out.err = <<>> THEN "success"
    ELSE IF Contains(out.err, <<"e","x","e","c","u","t","a","b","l","e"," ",
                                "f","i","l","e"," ","n","o","t"," ","f","o",
                                "u","n","d">>) THEN "not installed"
    ELSE IF out.deadline THEN "timed out"
    ELSE "failed"

\* what a slot of the result collection records
ReviewKind(review) ==
    IF review.Model = <<>> THEN "none"
    ELSE IF review.Error = <<>> THEN "success"
    ELSE IF Contains(review.Error, <<"n","o","t"," ","i","n","s","t","a","l",
                                     "l","e","d">>) THEN "not installed"
    ELSE IF Contains(review.Error, <<"t","i","m","e","d"," ","o","u","t">>) THEN "timed out"
    ELSE "failed"

\* every slot records what the process of its own reviewer ended with
OwnOutcomeRecorded ==
    Len(reviews) = 3 =>
       \A i \in 1..3 :
          /\ ReviewKind(reviews[i]) = OutcomeKind(outcome[i])
          /\ reviews[i].Duration = outcome[i].duration
          /\ outcome[i].ran => outcome[i] \in ProcessOutcomes(i)

\* a step that ends the process of reviewer i, or changes its slot, is a step
\* of the running reviewer i and leaves every other reviewer as it is
OnlyOwnStep ==
    Len(reviews) = 3 =>
       \A i \in 1..3 :
          (reviews'[i] # reviews[i] \/ outcome'[i] # outcome[i]) =>
             /\ gpc[i] = "running"
             /\ \A j \in 1..3 \ {i} :
                   /\ reviews'[j] = reviews[j]
                   /\ outcome'[j] = outcome[j]
                   /\ gpc'[j] = gpc[j]

\* C12: the outcome recorded for a reviewer is determined by the result of its
\* own process and its own deadline; the failure, missing tool or timeout of one
\* reviewer never ends another reviewer's process and never changes another
\* reviewer's outcome.
C12_FailureIsolation ==
    [](OwnOutcomeRecorded) /\ [][OnlyOwnStep]_vars

\* a timeout and a missing tool were recorded first, the third reviewer was
\* still running then and succeeded afterwards
C12_Witness ==
    /\ writes = <<1, 2, 3>>
    /\ outcome[1] = TimedOut(Limits[1])
    /\ outcome[2] = NotInstalled(Executables[2])
    /\ outcome[3] = Succeeded(Executables[3])
    /\ ReviewKind(reviews[1]) = "timed out"
    /\ ReviewKind(reviews[2]) = "not installed"
    /\ ReviewKind(reviews[3]) = "success"
    /\ \A i \in 1..3 : gpc[i] = "done"


\* the line of the report that gives the completed count n
CountLine(n) ==
    <<"*","*","R","e","v","i","e","w","s"," ","c","o","m","p","l","e","t","e",
      "d",":","*","*"," ">>
    \o (IF n = 0 THEN <<"0">> ELSE IF n = 1 THEN <<"1">>
        ELSE IF n = 2 THEN <<"2">> ELSE <<"3">>)
    \o <<"/","3">>

\* the reviewers whose process ended in the given way
TimedOutReviewers == {i \in 1..3 : outcome[i] = TimedOut(Limits[i])}
SucceededReviewers == {i \in 1..3 : outcome[i] = Succeeded(Executables[i])}

\* the trimmed output of the successful process of reviewer i
SuccessText(i) == <<"L","o","o","k","s"," ","s","o","l","i","d",","," ","s",
                    "a","y","s"," ">> \o Executables[i] \o <<".">>

\* C13: the completed count of the report is the number of outcomes with an
\* empty error; when one reviewer timed out and the other two succeeded the
\* report reads 2/3, contains both successful feedback texts and the timeout
\* notice of the third.
C13_CompletedCount ==
    result.ok =>
       \A n \in {Cardinality({i \in 1..3 : result.Reviews[i].Error = <<>>})} :
          /\ Contains(result.Summary, CountLine(n))
          /\ \A k \in (0..3) \ {n} : ~Contains(result.Summary, CountLine(k))
          /\ (Cardinality(TimedOutReviewers) = 1 /\ Cardinality(SucceededReviewers) = 2) =>
                /\ n = 2
                /\ Contains(result.Summary, 
                    <<"2","/","3">>)
                /\ \A i \in SucceededReviewers :
                      Contains(result.Summary, SuccessText(i))
                /\ \A t \in TimedOutReviewers :
                      /\ Contains(result.Reviews[t].Feedback, 
                          <<"t","i","m","e","d"," ","o","u","t">>)
                      /\ Contains(result.Summary, result.Reviews[t].Feedback)
                      /\ Contains(result.Summary, result.Reviews[t].Error)

\* the report of a run in which the second reviewer timed out and the other two
\* succeeded
C13_Witness ==
    /\ rpc = "ret" /\ result.ok
    /\ TimedOutReviewers = {2}
    /\ SucceededReviewers = {1, 3}
    /\ Contains(result.Summary, CountLine(2))


\* the reviewers in the order of the report, and the names their messages use
ReviewerModels ==
    << <<"C","l","a","u","d","e"," ","O","p","u","s"," ","4",".","5">>, 
        <<"o","3"," ","(","C","o","d","e","x",")">>, 
        <<"G","e","m","i","n","i"," ","3"," ","P","r","o">> >>
ReviewerNames == << <<"C","l","a","u","d","e">>, 
    <<"C","o","d","e","x">>, <<"G","e","m","i","n","i">> >>

\* what the section of reviewer i has to show for the way its process ended
ExpectedNotice(i) ==
    IF OutcomeKind(outcome[i]) = "success" THEN SuccessText(i)
    ELSE IF OutcomeKind(outcome[i]) = "not installed"
    THEN <<"*","E","r","r","o","r",":"," ">> \o ReviewerNames[i] \o 
        <<" ","C","L","I"," ","n","o","t"," ","i","n","s","t","a","l","l","e",
          "d">>
    ELSE IF OutcomeKind(outcome[i]) = "timed out"
    THEN <<"*","E","r","r","o","r",":"," ">> \o ReviewerNames[i] \o 
        <<" ","r","e","v","i","e","w"," ","t","i","m","e","d"," ","o","u",
          "t">>
    ELSE <<"*","E","r","r","o","r",":"," ">> \o ReviewerNames[i] \o 
        <<" ","r","e","v","i","e","w"," ","f","a","i","l","e","d",":"," ","e",
          "x","i","t"," ","s","t","a","t","u","s"," ","1"," ","-"," ","q","u",
          "o","t","a"," ","e","x","c","e","e","d","e","d">>

\* the places of the three section headings in a report
HeadingPlaces(summary) ==
    << Index(summary, <<"#","#","#"," ">> \o <<Check>> \o <<" ">> \o ReviewerModels[1])
         + Index(summary, <<"#","#","#"," ">> \o <<Warn>> \o <<" ">> \o ReviewerModels[1]),
       Index(summary, <<"#","#","#"," ">> \o <<Check>> \o <<" ">> \o ReviewerModels[2])
         + Index(summary, <<"#","#","#"," ">> \o <<Warn>> \o <<" ">> \o ReviewerModels[2]),
       Index(summary, <<"#","#","#"," ">> \o <<Check>> \o <<" ">> \o ReviewerModels[3])
         + Index(summary, <<"#","#","#"," ">> \o <<Warn>> \o <<" ">> \o ReviewerModels[3]) >>

\* the section of reviewer i: from its heading to the next heading or the end
SectionText(summary, places, i) ==
    SubSeq(summary, places[i], IF i < 3 THEN places[i + 1] - 1 ELSE Len(summary))

\* C14: whatever the order in which the three tasks complete, the report lists
\* Claude, then Codex, then Gemini, and the section of each reviewer holds the
\* result of that reviewer.
C14_FixedReportOrder ==
    result.ok =>
       \A places \in {HeadingPlaces(result.Summary)} :
          /\ 0 < places[1] /\ places[1] < places[2] /\ places[2] < places[3]
          /\ \A i \in 1..3 :
                /\ result.Reviews[i].Model = ReviewerModels[i]
                /\ Contains(SectionText(result.Summary, places, i), ExpectedNotice(i))
                /\ Contains(SectionText(result.Summary, places, i),
                            <<"(">> \o outcome[i].duration \o <<")">>)
                /\ \A j \in 1..3 \ {i} :
                      ~Contains(SectionText(result.Summary, places, i), ReviewerNames[j])

\* a report of three tasks that completed in the reverse order, each with a
\* different result
C14_Witness ==
    /\ rpc = "ret" /\ result.ok
    /\ writes = <<3, 2, 1>>
    /\ outcome[1] = Succeeded(Executables[1])
    /\ outcome[2] = ExitedNonZero
    /\ outcome[3] = TimedOut(Limits[3])


(* The program: main of cmd/claude-hook with its flags, the document on     *)
(* standard input, the file collection, the language hooks and the          *)
(* session-start handler.  Runs are without -v.                              *)

\* JSON values of the fields of the document on standard input
JString(s) == [type |-> "string", val |-> s]
JArray(xs) == [type |-> "array", val |-> xs]
JNumber == [type |-> "number", val |-> <<>>]
JAbsent == [type |-> "absent", val |-> <<>>]

\* a syntactically valid JSON object with the fields that Input and
\* SessionStartInput name (tool_input.* written flat)
Document(toolName_, filePath, filePaths, command_, transcriptPath) ==
    [syntax |-> TRUE, tool_name |-> toolName_, file_path |-> filePath,
     file_paths |-> filePaths, command |-> command_,
     transcript_path |-> transcriptPath, rest |-> <<>>]

\* a JSON object followed by more text on standard input
FollowedBy(doc, text) == [doc EXCEPT !.rest = text]

\* text that is no JSON value: empty input, a truncated object, plain words
NotJSON == [syntax |-> FALSE]

\* the value a string field takes from a JSON value: a JSON value of another
\* type leaves the field at its zero value
StringField(v, zero) == IF v.type = "string" THEN v.val ELSE zero
ArrayField(v) == IF v.type = "array" THEN v.val ELSE <<>>

\* decoder.Decode(&input) for var input Input: it reads the first JSON value
\* of the stream and not what follows it; a syntax error leaves input
\* untouched; a value of the wrong type for a field is skipped, the other
\* fields are decoded and an UnmarshalTypeError is returned
Decode(doc) ==
    IF ~doc.syntax THEN [err |-> TRUE, input |-> ZeroInput]
    ELSE [err |-> \/ doc.tool_name.type \notin {"string", "absent"}
                  \/ doc.file_path.type \notin {"string", "absent"}
                  \/ doc.file_paths.type \notin {"array", "absent"}
                  \/ doc.command.type \notin {"string", "absent"}
                  \/ doc.transcript_path.type \notin {"string", "absent"},
          input |-> [ToolName |-> StringField(doc.tool_name, ""),
                     FilePath |-> StringField(doc.file_path, <<>>),
                     FilePaths |-> ArrayField(doc.file_paths),
                     Command |-> StringField(doc.command, <<>>),
                     TranscriptPath |-> StringField(doc.transcript_path, <<>>)]]

\* decoder.Decode(&input) for var input SessionStartInput: of the fields of
\* the model only transcript_path belongs to it, the others are ignored
DecodeSessionStart(doc) ==
    IF ~doc.syntax THEN [err |-> TRUE, input |-> ZeroInput]
    ELSE [err |-> doc.transcript_path.type \notin {"string", "absent"},
          input |-> [ZeroInput EXCEPT
                       !.TranscriptPath = StringField(doc.transcript_path, <<>>)]]

\* strings.HasSuffix
HasSuffix(s, suffix) == MatchAt(s, suffix, Len(s) - Len(suffix) + 1)

\* filepath.Ext: the suffix that starts at the last dot of the last element
Ext(path) ==
    LET dots == {i \in 1..Len(path) : path[i] = "."}
        slashes == {i \in 1..Len(path) : path[i] = "/"} \cup {0}
    IN IF dots = {} \/ Max(dots) < Max(slashes) THEN <<>>
       ELSE SubSeq(path, Max(dots), Len(path))

\* filepath.Clean on paths without "..", inner "." elements and doubled
\* separators: trailing separators and a leading "./" go, "" becomes "."
Clean(path) ==
    LET keep == {i \in 1..Len(path) : path[i] # "/"}
        cut == IF keep = {} THEN (IF path = <<>> THEN <<>> ELSE <<"/">>)
               ELSE SubSeq(path, 1, Max(keep))
        rel == IF MatchAt(cut, <<".", "/">>, 1) THEN SubSeq(cut, 3, Len(cut))
               ELSE cut
    IN IF rel = <<>> THEN <<".">> ELSE rel

\* filepath.Dir: all but the last element of the path, cleaned
Dir(path) ==
    LET slashes == {i \in 1..Len(path) : path[i] = "/"} \cup {0}
    IN Clean(SubSeq(path, 1, Max(slashes)))

\* filepath.Join of two non-empty elements
JoinPath(dir, name) == Clean(dir \o <<"/">> \o name)

\* the elements of s at the places keep, in the order of s
Filter(s, keep) ==
    [k \in 1..Cardinality(keep) |->
        s[CHOOSE i \in keep : Cardinality({j \in keep : j <= i}) = k]]

VendorDir == <<"/","v","e","n","d","o","r","/">>
PbGo == <<".","p","b",".","g","o">>
GenGo == <<".","g","e","n",".","g","o">>

\* collectFiles: file_path and file_paths without duplicates, then without
\* vendored and generated files
collectFiles(toolInput) ==
    LET all == (IF toolInput.FilePath # <<>> THEN <<toolInput.FilePath>> ELSE <<>>)
               \o toolInput.FilePaths
        files == Filter(all, {i \in 1..Len(all) :
                                \A j \in 1..(i - 1) : all[j] # all[i]})
    IN Filter(files, {i \in 1..Len(files) :
                        ~(\/ Contains(files[i], VendorDir)
                          \/ HasSuffix(files[i], PbGo)
                          \/ HasSuffix(files[i], GenGo))})

GoType == <<"g","o">>
TypeScriptType == <<"t","y","p","e","s","c","r","i","p","t">>
JavaScriptType == <<"j","a","v","a","s","c","r","i","p","t">>
PythonType == <<"p","y","t","h","o","n">>
FileTypes == {GoType, TypeScriptType, JavaScriptType, PythonType}

\* the switch of groupFilesByType on the lower-cased extension; <<>> for the
\* extensions it skips
FileTypeOf(f) ==
    LET ext == ToLower(Ext(f)) IN
    IF ext = <<".","g","o">> THEN GoType
    ELSE IF ext \in {<<".","t","s">>, <<".","t","s","x">>} THEN TypeScriptType
    ELSE IF ext \in {<<".","j","s">>, <<".","j","s","x">>} THEN JavaScriptType
    ELSE IF ext = <<".","p","y">> THEN PythonType
    ELSE <<>>

\* groupFilesByType: the map from each file type that occurs to its files
groupFilesByType(files) ==
    LET types == {t \in FileTypes : \E i \in 1..Len(files) : FileTypeOf(files[i]) = t}
    IN [t \in types |-> Filter(files, {i \in 1..Len(files) : FileTypeOf(files[i]) = t})]

\* var registry as init() fills it
registry ==
    [t \in {GoType, TypeScriptType, JavaScriptType} |->
        IF t = GoType THEN "GoHook" ELSE "TypeScriptHook"]

\* hooks.GetHook: the zero Hook (nil) for a type that is not registered
GetHook(fileType) ==
    IF fileType \in DOMAIN registry THEN registry[fileType] ELSE "nil"

\* error values
NilError == [isNil |-> TRUE, msg |-> <<>>]
Errorf(msg) == [isNil |-> FALSE, msg |-> msg]

\* GoHook.PostEdit; tools holds what runLinters and runTests returned (the
\* other steps only warn)
GoPostEdit(files, tools) ==
    IF Len(files) = 0 THEN NilError
    ELSE LET allErrors ==
               (IF tools.linters.isNil THEN <<>> ELSE <<tools.linters.msg>>)
               \o (IF tools.tests.isNil THEN <<>> ELSE <<tools.tests.msg>>)
         IN IF allErrors # <<>>
            THEN Errorf(<<"g","o"," ","c","h","e","c","k","s"," ","f","a","i",
                          "l","e","d",":","\n","\n">> \o Join(allErrors, 
                <<"\n","\n">>))
            ELSE NilError

\* hook.PostEditJSON: GoHook runs PostEdit with os.Stdout pointed at
\* os.Stderr, TypeScriptHook returns nil
PostEditJSON(hook, files, tools) ==
    IF hook = "GoHook"
    THEN (IF Len(files) = 0 THEN NilError ELSE GoPostEdit(files, tools))
    ELSE NilError

\* hook.PreEdit: nil for both hooks
PreEdit(hook, files) == NilError

\* the escape json.Marshal writes for a character of a string
EscapeChar(c) ==
    IF c = "\"" THEN <<"\\", "\"">>
    ELSE IF c = "\\" THEN <<"\\", "\\">>
    ELSE IF c = "\n" THEN <<"\\", "n">>
    ELSE IF c = "\t" THEN <<"\\", "t">>
    ELSE IF c = "<" THEN <<"\\","u","0","0","3","c">>
    ELSE IF c = ">" THEN <<"\\","u","0","0","3","e">>
    ELSE IF c = "&" THEN <<"\\","u","0","0","2","6">>
    ELSE <<c>>

\* a string as json.Marshal writes it, without the enclosing quotes
EscapeString(s) == Concat([i \in 1..Len(s) |-> EscapeChar(s[i])])

\* json.Marshal(output) for output of type HookOutput: both fields are
\* omitempty
MarshalHookOutput(output) ==
    LET decision == IF output.Decision = <<>> THEN <<>>
                    ELSE << <<"\"","d","e","c","i","s","i","o","n","\"",":",
                              "\"">> \o EscapeString(output.Decision) \o <<"\"">> >>
        reason == IF output.Reason = <<>> THEN <<>>
                  ELSE << <<"\"","r","e","a","s","o","n","\"",":","\"">> \o EscapeString(output.Reason) \o <<"\"">> >>
    IN <<"{">> \o Join(decision \o reason, <<",">>) \o <<"}">>

\* fmt.Println(text) on standard output
Println(text) == [text |-> text \o <<"\n">>]


(* Inputs and environment of the program *)

AGo == <<"a",".","g","o">>
BTs == <<"s","r","c","/","b",".","T","S">>
CPy == <<"c",".","p","y">>
Notes == <<"n",".","t","x","t">>
Vendored == <<"/","v","e","n","d","o","r","/","v",".","g","o">>
Generated == <<"g",".","p","b",".","g","o">>

GitCommitThenMysql == <<"g","i","t"," ","c","o","m","m","i","t",";","m","y",
                        "s","q","l">>

TranscriptInW == <<"/","w","/","a","/","b","/","t">>
TranscriptHere == <<"t">>

HookTypes == {"post-edit", "pre-edit", "pre-bash", "session-start", "format"}

Stdins ==
    { NotJSON,
      Document(JString("Write"), JString(AGo), JAbsent, JAbsent, JAbsent),
      Document(JString("MultiEdit"), JAbsent, JArray(<<BTs, AGo, BTs>>), JAbsent, JAbsent),
      Document(JString("Write"), JString(CPy), JArray(<<Notes, Vendored>>),
               JAbsent, JAbsent),
      Document(JString("Edit"), JString(Generated), JAbsent, JAbsent, JAbsent),
      Document(JString("Edit"), JNumber, JArray(<<AGo>>), JAbsent, JAbsent),
      Document(JString("Bash"), JAbsent, JAbsent, JString(Ls), JAbsent),
      Document(JString("bash"), JAbsent, JAbsent, JString(Mysql), JAbsent),
      Document(JString("Bash"), JAbsent, JAbsent, JString(GitCommitThenMysql), JAbsent),
      Document(JString("Bash"), JAbsent, JAbsent, JString(<<>>), JAbsent),
      Document(JString("Write"), JAbsent, JAbsent, JString(Mysql), JAbsent),
      Document(JString("Bash"), JAbsent, JNumber, JString(Mysql), JAbsent),
      Document(JNumber, JAbsent, JAbsent, JString(Mysql), JAbsent),
      FollowedBy(Document(JString("Bash"), JAbsent, JAbsent, JString(Mysql), JAbsent),
                 <<"}">>),
      Document(JAbsent, JAbsent, JAbsent, JAbsent, JString(TranscriptInW)),
      Document(JAbsent, JAbsent, JAbsent, JAbsent, JString(TranscriptHere)),
      Document(JAbsent, JAbsent, JAbsent, JAbsent, JNumber) }

ArgLists == { <<>>, <<AGo>> }

\* what runLinters and runTests may return
LinterOutcomes ==
    { NilError, Errorf(<<"l","i","n","t","i","n","g"," ","f","a","i","l","e",
                         "d">>),
      Errorf(<<"l","i","n","t","i","n","g"," ","f","a","i","l","e","d",":",
               "\n","\n","a",".","g","o",":","1",":"," ","u","n","d","e","f",
               "i","n","e","d",":"," ","\"","x","\""," ","<","n","i","l",">">>) }
TestOutcomes == { NilError, Errorf(<<"t","e","s","t","s"," ","f","a","i","l",
                                     "e","d">>) }
ToolRuns == [linters : LinterOutcomes, tests : TestOutcomes]

DirW == <<"/","w">>
DirC == <<"/","c">>
DirE == <<"/","e">>
AgentsMd == <<"a","g","e","n","t","s",".","m","d">>
AgentsText == <<"#"," ","A","g","e","n","t","s","\n","\n","U","s","e"," ","t",
                "a","b","s",".">>

\* an agents.md on disk: readable with a text, readable and empty, or not
\* readable
AgentsFiles ==
    { [readable |-> TRUE, content |-> AgentsText],
      [readable |-> TRUE, content |-> <<>>],
      [readable |-> FALSE, content |-> <<>>] }

\* the disks: which of /w/agents.md and /c/agents.md exist
Disks ==
    UNION { [paths -> AgentsFiles] :
              paths \in SUBSET {JoinPath(DirW, AgentsMd), JoinPath(DirC, AgentsMd)} }

GetwdOutcomes == { [ok |-> TRUE, dir |-> DirC], [ok |-> FALSE, dir |-> <<>>] }

OsEnvs ==
    [claudeCodeCwd : {<<>>, DirW, DirE}, getwd : GetwdOutcomes, disk : Disks]

\* the environment of the runs that do not read it
NoEnv ==
    [claudeCodeCwd |-> <<>>, getwd |-> [ok |-> TRUE, dir |-> DirC],
     disk |-> [p \in {} |-> <<>>]]

\* os.ReadFile: a relative path is read below the current directory
ReadFile(env, path) ==
    LET abs == IF MatchAt(path, <<"/">>, 1) THEN path
               ELSE JoinPath(env.getwd.dir, path)
    IN IF abs \in DOMAIN env.disk /\ env.disk[abs].readable
       THEN [ok |-> TRUE, content |-> env.disk[abs].content]
       ELSE [ok |-> FALSE, content |-> <<>>]

InitMain ==
    /\ hookType \in HookTypes
    /\ stdin \in Stdins
    /\ args \in ArgLists
    /\ osEnv \in (IF hookType = "session-start" THEN OsEnvs ELSE {NoEnv})
    /\ mpc = "main"
    /\ mainInput = ZeroInput
    /\ filesByType = <<>>
    /\ pending = {}
    /\ hookErrs = <<>>
    /\ hasErrors = FALSE
    /\ errorMessages = <<>>
    /\ BashIdle /\ ScoreIdle /\ TransIdle /\ ReviewIdle /\ SettingsIdle

\* os.Exit(code) in main and in handleSessionStart, and the return of main
MainExit(code) == mpc' = "exit" /\ exitCode' = code

\* main from flag.Parse to the for loop: the session-start dispatch, the
\* decoding of standard input, the pre-bash and plan-review dispatch,
\* collectFiles and groupFilesByType
MainStart ==
    /\ mpc = "main"
    /\ IF hookType = "session-start"
       THEN /\ mpc' = "session"
            /\ UNCHANGED <<mainInput, filesByType, pending, toolName, command,
                           bpc, exitCode>>
       ELSE LET dec == Decode(stdin)
                inp == IF dec.err THEN [dec.input EXCEPT !.FilePaths = args]
                       ELSE dec.input
            IN IF dec.err /\ Len(args) = 0
               THEN /\ MainExit(0)
                    /\ UNCHANGED <<mainInput, filesByType, pending, toolName,
                                   command, bpc>>
               ELSE /\ mainInput' = inp
                    /\ IF hookType = "pre-bash"
                       THEN /\ toolName' = inp.ToolName
                            /\ command' = inp.Command
                            /\ bpc' = "start"
                            /\ mpc' = "handler"
                            /\ UNCHANGED <<filesByType, pending, exitCode>>
                       ELSE IF hookType = "plan-review"
                       THEN /\ mpc' = "review"
                            /\ UNCHANGED <<filesByType, pending, exitCode,
                                           toolName, command, bpc>>
                       ELSE LET files == collectFiles(inp) IN
                            /\ UNCHANGED <<toolName, command, bpc>>
                            /\ IF Len(files) = 0
                               THEN /\ MainExit(0)
                                    /\ UNCHANGED <<filesByType, pending>>
                               ELSE /\ filesByType' = groupFilesByType(files)
                                    /\ pending' = DOMAIN groupFilesByType(files)
                                    /\ mpc' = "loop"
                                    /\ UNCHANGED exitCode
    /\ UNCHANGED <<subCommands, idx, checked, stdout>>
    /\ UNCHANGED <<hookType, stdin, args, osEnv, hookErrs, hasErrors, errorMessages>>
    /\ UNCHANGED <<scoreVars, transVars, reviewVars, settingsVars>>

\* handleSessionStart if it looked for agents.md in the current directory
\* only
handleSessionStartInCwd ==
    /\ mpc = "session"
    /\ LET dec == DecodeSessionStart(stdin)
           file == ReadFile(osEnv, JoinPath(osEnv.getwd.dir, AgentsMd))
       IN IF dec.err
          THEN MainExit(0) /\ UNCHANGED <<mainInput, stdout>>
          ELSE /\ mainInput' = dec.input
               /\ IF ~osEnv.getwd.ok
                  THEN MainExit(0) /\ UNCHANGED stdout
                  ELSE IF ~file.ok
                  THEN MainExit(0) /\ UNCHANGED stdout
                  ELSE /\ stdout' = Append(stdout, Println(file.content))
                       /\ MainExit(0)
    /\ UNCHANGED <<hookType, stdin, args, osEnv, filesByType, pending, hookErrs,
                   hasErrors, errorMessages>>
    /\ UNCHANGED <<toolName, command, bpc, subCommands, idx, checked>>
    /\ UNCHANGED <<scoreVars, transVars, reviewVars, settingsVars>>


\* handleSessionStart
handleSessionStart ==
    /\ mpc = "session"
    /\ LET dec == DecodeSessionStart(stdin)
           inferred == IF osEnv.claudeCodeCwd = <<>> /\ dec.input.TranscriptPath # <<>>
                       THEN Dir(Dir(Dir(dec.input.TranscriptPath)))
                       ELSE osEnv.claudeCodeCwd
           workingDir == IF inferred = <<>> THEN osEnv.getwd.dir ELSE inferred
           file == ReadFile(osEnv, JoinPath(workingDir, AgentsMd))
       IN IF dec.err
          THEN MainExit(0) /\ UNCHANGED <<mainInput, stdout>>
          ELSE /\ mainInput' = dec.input
               /\ IF inferred = <<>> /\ ~osEnv.getwd.ok
                  THEN MainExit(0) /\ UNCHANGED stdout
                  ELSE IF ~file.ok
                  THEN MainExit(0) /\ UNCHANGED stdout
                  ELSE /\ stdout' = Append(stdout, Println(file.content))
                       /\ MainExit(0)
    /\ UNCHANGED <<hookType, stdin, args, osEnv, filesByType, pending, hookErrs,
                   hasErrors, errorMessages>>
    /\ UNCHANGED <<toolName, command, bpc, subCommands, idx, checked>>
    /\ UNCHANGED <<scoreVars, transVars, reviewVars, settingsVars>>

\* one iteration of "for fileType, fileList := range filesByType"; the order
\* of a range over a map is not fixed
MainLoop ==
    /\ mpc = "loop"
    /\ \E fileType \in pending :
         LET fileList == filesByType[fileType]
             hook == GetHook(fileType)
         IN /\ pending' = pending \ {fileType}
            /\ IF hook = "nil"
               THEN UNCHANGED <<hookErrs, hasErrors, errorMessages, mpc, exitCode>>
               ELSE IF hookType \notin {"post-edit", "pre-edit"}
               THEN /\ MainExit(2)
                    /\ UNCHANGED <<hookErrs, hasErrors, errorMessages>>
               ELSE \E tools \in ToolRuns :
                      LET err == IF hookType = "post-edit"
                                 THEN PostEditJSON(hook, fileList, tools)
                                 ELSE PreEdit(hook, fileList)
                      IN /\ hookErrs' = Append(hookErrs,
                                           [fileType |-> fileType, err |-> err])
                         /\ IF ~err.isNil
                            THEN /\ errorMessages' =
                                      Append(errorMessages,
                                             fileType \o 
                                                 <<" ","h","o","o","k"," ",
                                                   "f","a","i","l","e","d",
                                                   ":"," ">> \o err.msg)
                                 /\ hasErrors' = TRUE
                            ELSE UNCHANGED <<hasErrors, errorMessages>>
                         /\ UNCHANGED <<mpc, exitCode>>
    /\ UNCHANGED <<hookType, stdin, args, osEnv, mainInput, filesByType>>
    /\ UNCHANGED <<toolName, command, bpc, subCommands, idx, checked, stdout>>
    /\ UNCHANGED <<scoreVars, transVars, reviewVars, settingsVars>>

AllChecksPassed == <<Check>> \o <<" ","A","l","l"," ","c","h","e","c","k","s",
                                  " ","p","a","s","s","e","d","!">>

\* main after the for loop if every hook type ended a failed run like
\* pre-edit does: exit code 2 and no decision
MainFinishExitCodeOnly ==
    /\ mpc = "loop"
    /\ pending = {}
    /\ IF hasErrors
       THEN MainExit(2) /\ UNCHANGED stdout
       ELSE /\ stdout' = Append(stdout, Println(AllChecksPassed))
            /\ MainExit(0)
    /\ UNCHANGED <<hookType, stdin, args, osEnv, mainInput, filesByType, pending,
                   hookErrs, hasErrors, errorMessages>>
    /\ UNCHANGED <<toolName, command, bpc, subCommands, idx, checked>>
    /\ UNCHANGED <<scoreVars, transVars, reviewVars, settingsVars>>


\* main after the for loop: the block decision of post-edit, exit code 2 of
\* the other hook types, or the success line
MainFinish ==
    /\ mpc = "loop"
    /\ pending = {}
    /\ IF hasErrors
       THEN IF hookType = "post-edit"
            THEN /\ stdout' = Append(stdout,
                      Println(MarshalHookOutput(
                          [Decision |-> <<"b","l","o","c","k">>,
                           Reason |-> Join(errorMessages, 
                               <<"\n","\n">>)])))
                 /\ MainExit(0)
            ELSE MainExit(2) /\ UNCHANGED stdout
       ELSE /\ stdout' = Append(stdout, Println(AllChecksPassed))
            /\ MainExit(0)
    /\ UNCHANGED <<hookType, stdin, args, osEnv, mainInput, filesByType, pending,
                   hookErrs, hasErrors, errorMessages>>
    /\ UNCHANGED <<toolName, command, bpc, subCommands, idx, checked>>
    /\ UNCHANGED <<scoreVars, transVars, reviewVars, settingsVars>>

NextMain ==
    \/ MainStart
    \/ handleSessionStart
    \/ MainLoop
    \/ MainFinish
    \/ PreBashEnter
    \/ PreBashCheck
    \/ PreBashAllow

SpecMain == InitMain /\ [][NextMain]_vars


(* The plan-review hook: main with -type plan-review, handlePlanReview and  *)
(* the ReviewPlan it calls                                                   *)

ExitPlanMode == "ExitPlanMode"

\* the text handlePlanReview puts after the summary
PleaseReview ==
    <<"\n", "\n", Clipboard>> \o
    <<" ","P","l","e","a","s","e"," ","r","e","v","i","e","w"," ","t","h","e",
      " ","A","I"," ","C","o","u","n","c","i","l"," ","f","e","e","d","b","a",
      "c","k"," ","a","b","o","v","e"," ","a","n","d"," ","a","d","j","u","s",
      "t"," ","y","o","u","r"," ","p","l","a","n"," ","i","f"," ","n","e","e",
      "d","e","d","."," ","T","h","e","n"," ","c","a","l","l"," ","E","x","i",
      "t","P","l","a","n","M","o","d","e"," ","a","g","a","i","n"," ","t","o",
      " ","f","i","n","a","l","i","z","e",".">>

\* the PreToolUseOutput of handlePlanReview
PlanReviewDeny(summary) ==
    [hookEventName |-> "PreToolUse",
     permissionDecision |-> "deny",
     reason |-> summary \o PleaseReview]

\* what standard input holds when the plan-review hook runs
PlanReviewStdins ==
    { NotJSON,
      Document(JString(ExitPlanMode), JAbsent, JAbsent, JAbsent, JString(TranscriptInW)),
      Document(JString(ExitPlanMode), JAbsent, JAbsent, JAbsent, JAbsent),
      Document(JString(ExitPlanMode), JAbsent, JAbsent, JAbsent, JNumber),
      Document(JString("exitplanmode"), JAbsent, JAbsent, JAbsent, JString(TranscriptInW)),
      Document(JString("Bash"), JAbsent, JAbsent, JString(Mysql), JString(TranscriptInW)),
      Document(JAbsent, JAbsent, JAbsent, JAbsent, JString(TranscriptInW)) }

InitPlanReview ==
    /\ hookType = "plan-review"
    /\ stdin \in PlanReviewStdins
    /\ args \in ArgLists
    /\ osEnv = NoEnv
    /\ mpc = "main"
    /\ mainInput = ZeroInput
    /\ filesByType = <<>>
    /\ pending = {}
    /\ hookErrs = <<>>
    /\ hasErrors = FALSE
    /\ errorMessages = <<>>
    /\ BashIdle /\ ScoreIdle /\ TransIdle /\ ReviewIdle /\ SettingsIdle

\* handlePlanReview up to the call of ReviewPlan, without the test of the
\* tool name
handlePlanReviewAnyTool ==
    /\ mpc = "review"
    /\ rpc = "idle"
    /\ input' = [PlanContent |-> <<>>,
                 TranscriptPath |-> IF mainInput.TranscriptPath = <<>> THEN ""
                                    ELSE "transcript.jsonl"]
    /\ rpc' = "start"
    /\ UNCHANGED <<mpc, exitCode>>
    /\ UNCHANGED <<plan, spawned, wg, gpc, outcome, reviews, writes, result>>
    /\ UNCHANGED <<toolName, command, bpc, subCommands, idx, checked, stdout>>
    /\ UNCHANGED <<hookType, stdin, args, osEnv, mainInput, filesByType, pending,
                   hookErrs, hasErrors, errorMessages>>
    /\ UNCHANGED <<scoreVars, transVars, settingsVars>>

\* handlePlanReview up to the call of ReviewPlan: the test of the tool name
\* and the PlanReviewInput, which carries the transcript path and no plan
\* content
handlePlanReview ==
    /\ mpc = "review"
    /\ rpc = "idle"
    /\ IF mainInput.ToolName # ExitPlanMode
       THEN /\ MainExit(0)
            /\ UNCHANGED <<input, rpc>>
       ELSE /\ input' = [PlanContent |-> <<>>,
                         TranscriptPath |-> IF mainInput.TranscriptPath = <<>> THEN ""
                                            ELSE "transcript.jsonl"]
            /\ rpc' = "start"
            /\ UNCHANGED <<mpc, exitCode>>
    /\ UNCHANGED <<plan, spawned, wg, gpc, outcome, reviews, writes, result>>
    /\ UNCHANGED <<toolName, command, bpc, subCommands, idx, checked, stdout>>
    /\ UNCHANGED <<hookType, stdin, args, osEnv, mainInput, filesByType, pending,
                   hookErrs, hasErrors, errorMessages>>
    /\ UNCHANGED <<scoreVars, transVars, settingsVars>>

\* handlePlanReview from the return of ReviewPlan: an error ends the program
\* with nothing written; a result is written as a deny decision
handlePlanReviewReturn ==
    /\ mpc = "review"
    /\ rpc = "ret"
    /\ IF ~result.ok
       THEN UNCHANGED stdout
       ELSE stdout' = Append(stdout, PlanReviewDeny(result.Summary))
    /\ MainExit(0)
    /\ UNCHANGED <<toolName, command, bpc, subCommands, idx, checked>>
    /\ UNCHANGED <<hookType, stdin, args, osEnv, mainInput, filesByType, pending,
                   hookErrs, hasErrors, errorMessages>>
    /\ UNCHANGED <<scoreVars, transVars, reviewVars, settingsVars>>

NextPlanReview ==
    \/ MainStart
    \/ handlePlanReview
    \/ ReviewPlanStart
    \/ Spawn
    \/ \E i \in 1..NumReviewers : GoStart(i)
    \/ \E i \in 1..NumReviewers : GoAssign(i)
    \/ \E i \in 1..NumReviewers : GoDone(i)
    \/ WaitAndReturn
    \/ handlePlanReviewReturn

SpecPlanReview == InitPlanReview /\ [][NextPlanReview]_vars



(* Further claims about the pre-bash gate *)

\* the place of the first occurrence of sub in s at or after from, 0 when none
IndexFrom(s, sub, from) ==
    LET hits == {i \in from..(Len(s) - Len(sub) + 1) : MatchAt(s, sub, i)}
    IN IF hits = {} THEN 0 ELSE Min(hits)

\* the texts subs[k], subs[k+1], ... occur in cmd one after the other, the
\* first of them at or after from
RECURSIVE InOrderFrom(_, _, _, _)
InOrderFrom(cmd, subs, k, from) ==
    IF k > Len(subs) THEN TRUE
    ELSE LET p == IndexFrom(cmd, subs[k], from) IN
         p # 0 /\ InOrderFrom(cmd, subs, k + 1, p + Len(subs[k]))

\* every sub-command is non-empty and has no whitespace at either end
TrimmedAndNonEmpty(subs) ==
    \A k \in 1..Len(subs) : subs[k] # <<>> /\ TrimSpace(subs[k]) = subs[k]

\* C15: every sub-command returned by parseCompoundCommand is non-empty and has
\* no leading or trailing whitespace, and the sub-commands stand in the
\* left-to-right order of their text in the input.
C15_TrimmedNonEmptyInOrder ==
    /\ TrimmedAndNonEmpty(subCommands)
    /\ parseCompoundCommand(<<>>) = <<>>
    /\ Parsed => InOrderFrom(command, subCommands, 1, 1)

\* a command made of whitespace and delimiters only
OnlyWhitespaceAndDelimiters(cmd) ==
    /\ \A i \in 1..Len(cmd) : IsSpace(cmd[i]) \/ cmd[i] \in {"&", "|", ";"}
    /\ RefSubCommands(cmd) = <<>>

\* C16: parseCompoundCommand returns the empty sequence for every command that
\* consists of whitespace and delimiters only.
C16_OnlyDelimitersGiveNothing ==
    (Parsed /\ OnlyWhitespaceAndDelimiters(command)) => subCommands = <<>>


-----------------------------------------------------------------------------
(* Claims about the edit modes of the program *)

\* the character a \uXXXX escape of the model stands for
UnicodeChar(hex) ==
    IF hex = <<"0","0","3","c">> THEN "<"
    ELSE IF hex = <<"0","0","3","e">> THEN ">"
    ELSE IF hex = <<"0","0","2","6">> THEN "&"
    ELSE "?"

\* the string a JSON string body stands for
RECURSIVE Unescape(_)
Unescape(s) ==
    LET i == Index(s, <<"\\">>) IN
    IF i = 0 \/ i = Len(s) THEN s
    ELSE LET c == s[i + 1]
             one == IF c = "n" THEN "\n"
                    ELSE IF c = "t" THEN "\t"
                    ELSE IF c = "u" THEN UnicodeChar(SubSeq(s, i + 2, i + 5))
                    ELSE c
             used == IF c = "u" THEN 6 ELSE 2
         IN SubSeq(s, 1, i - 1) \o <<one>> \o Unescape(SubSeq(s, i + used, Len(s)))

BlockPrefix == <<"{","\"","d","e","c","i","s","i","o","n","\"",":","\"","b",
                 "l","o","c","k","\"",",","\"","r","e","a","s","o","n","\"",
                 ":","\"">>
BlockSuffix == <<"\"","}","\n">>

\* whether a line of standard output is one JSON object with the decision
\* block and a reason
IsBlockObject(line) ==
    /\ Len(line) >= Len(BlockPrefix) + Len(BlockSuffix)
    /\ MatchAt(line, BlockPrefix, 1)
    /\ HasSuffix(line, BlockSuffix)
    /\ LET body == SubSeq(line, Len(BlockPrefix) + 1, Len(line) - Len(BlockSuffix))
       IN EscapeString(Unescape(body)) = body

\* the reason of a block object
BlockReason(line) ==
    Unescape(SubSeq(line, Len(BlockPrefix) + 1, Len(line) - Len(BlockSuffix)))

\* the calls of hooks that returned an error
FailedHooks == {i \in 1..Len(hookErrs) : ~hookErrs[i].err.isNil}

MentionsBlock(line) == Contains(line, <<"\"","d","e","c","i","s","i","o","n",
                                        "\"",":","\"","b","l","o","c","k",
                                        "\"">>)

EditFinished(type) == hookType = type /\ mpc = "exit"

\* C17: when a post-edit run has ended and at least one hook returned an error,
\* standard output holds exactly one line, a JSON object with decision block
\* whose reason contains the message of every hook that failed, and the exit
\* code is 0; when no hook returned an error no line of standard output carries
\* a block decision; a pre-edit run that has ended never writes a block decision
\* and has exit code 2 exactly when a hook returned an error.
C17_BlockDecisionOnHookError ==
    /\ EditFinished("post-edit") /\ FailedHooks # {} =>
          /\ exitCode = 0
          /\ Len(stdout) = 1
          /\ IsBlockObject(stdout[1].text)
          /\ \A i \in FailedHooks :
                Contains(BlockReason(stdout[1].text), hookErrs[i].err.msg)
    /\ EditFinished("post-edit") /\ FailedHooks = {} =>
          /\ exitCode = 0
          /\ \A k \in 1..Len(stdout) : ~MentionsBlock(stdout[k].text)
    /\ EditFinished("pre-edit") =>
          /\ exitCode = 2 <=> FailedHooks # {}
          /\ \A k \in 1..Len(stdout) : ~MentionsBlock(stdout[k].text)

\* a post-edit run over a Go and a TypeScript file in which the linters and the
\* tests of the Go hook failed has ended with the block decision
C17_Witness ==
    /\ EditFinished("post-edit")
    /\ Len(hookErrs) = 2
    /\ \E i \in FailedHooks :
          /\ hookErrs[i].fileType = GoType
          /\ Contains(hookErrs[i].err.msg, 
              <<"u","n","d","e","f","i","n","e","d",":"," ","\"","x","\""," ",
                "<","n","i","l",">">>)
          /\ Contains(hookErrs[i].err.msg, 
              <<"t","e","s","t","s"," ","f","a","i","l","e","d">>)
    /\ \E i \in 1..2 : hookErrs[i].fileType = TypeScriptType /\ hookErrs[i].err.isNil
    /\ Len(stdout) = 1
    /\ IsBlockObject(stdout[1].text)
    /\ exitCode = 0


-----------------------------------------------------------------------------
(* Claims about the session-start mode *)

\* the directory that holds the last element of a path
Parent(path) ==
    LET slashes == {i \in 1..Len(path) : path[i] = "/"} IN
    IF slashes = {} THEN <<".">>
    ELSE IF Max(slashes) = 1 THEN <<"/">>
    ELSE SubSeq(path, 1, Max(slashes) - 1)

\* whether standard input is a SessionStart document
SessionInputParses ==
    stdin.syntax /\ stdin.transcript_path.type \in {"string", "absent"}

SessionTranscriptPath ==
    IF stdin.syntax /\ stdin.transcript_path.type = "string"
    THEN stdin.transcript_path.val
    ELSE <<>>

\* the working directory of the session: $CLAUDE_CODE_CWD, else the directory
\* three levels above the transcript, else the current directory; <<>> when
\* none of them is known
ResolvedWorkingDir ==
    IF osEnv.claudeCodeCwd # <<>> THEN osEnv.claudeCodeCwd
    ELSE IF SessionTranscriptPath # <<>>
    THEN Parent(Parent(Parent(SessionTranscriptPath)))
    ELSE IF osEnv.getwd.ok THEN osEnv.getwd.dir
    ELSE <<>>

\* the place on disk of agents.md in the resolved working directory
ResolvedAgentsPath ==
    IF ResolvedWorkingDir = <<".">> THEN osEnv.getwd.dir \o <<"/">> \o AgentsMd
    ELSE ResolvedWorkingDir \o <<"/">> \o AgentsMd

AgentsReadable ==
    /\ SessionInputParses
    /\ ResolvedWorkingDir # <<>>
    /\ ResolvedAgentsPath \in DOMAIN osEnv.disk
    /\ osEnv.disk[ResolvedAgentsPath].readable

SessionFinished == hookType = "session-start" /\ mpc = "exit"

\* C18: a finished session-start run has exit code 0; when agents.md exists and
\* can be read in the resolved working directory, standard output holds its
\* content (followed by a line end) and nothing else; when the file is missing
\* or unreadable, or the input does not parse, standard output is empty.
C18_AgentsInjectedOrSilent ==
    SessionFinished =>
        /\ exitCode = 0
        /\ IF AgentsReadable
           THEN stdout = << [text |-> osEnv.disk[ResolvedAgentsPath].content
                                          \o <<"\n">>] >>
           ELSE stdout = <<>>

\* a session whose working directory is inferred from the transcript path
\* has written the agents.md found there, while the current directory holds
\* none
C18_Witness ==
    /\ SessionFinished
    /\ osEnv.claudeCodeCwd = <<>>
    /\ SessionTranscriptPath = TranscriptInW
    /\ DOMAIN osEnv.disk = {DirW \o <<"/">> \o AgentsMd}
    /\ stdout = << [text |-> AgentsText \o <<"\n">>] >>
    /\ exitCode = 0


-----------------------------------------------------------------------------
(* Claims about the pre-bash mode of the program *)

\* the tool name and the command that the document on standard input gives
DocToolName ==
    IF stdin.syntax /\ stdin.tool_name.type = "string" THEN stdin.tool_name.val
    ELSE ""

DocCommand ==
    IF stdin.syntax /\ stdin.command.type = "string" THEN stdin.command.val
    ELSE <<>>

\* input the gate cannot act on: no JSON value can be read from standard
\* input, the tool is not Bash, or there is no command
NothingToCheck ==
    \/ ~stdin.syntax
    \/ DocToolName \notin {"Bash", "bash"}
    \/ DocCommand = <<>>

DenyWritten == \E k \in 1..Len(stdout) : stdout[k].permissionDecision = "deny"

\* C19: in a pre-bash run whose standard input is no JSON, names a tool other
\* than Bash or bash, or has an empty command, no deny decision is ever
\* written, no sub-command is scanned, and the run ends with exit code 0 in
\* main or in the first step of the handler.
C19_NeverBlocksOnUnusableInput ==
    hookType = "pre-bash" /\ NothingToCheck =>
        /\ ~DenyWritten
        /\ bpc \in {"idle", "start", "exit"}
        /\ exitCode \in {-1, 0}
        /\ mpc = "exit" \/ bpc = "exit" => exitCode = 0
        /\ mpc = "main" \/ mpc = "exit" \/ (mpc = "handler" /\ bpc \in {"start", "exit"})

\* text that is no JSON came with command-line arguments, so that main went
\* on to the handler, which has exited with code 0 and written nothing
C19_Witness ==
    /\ hookType = "pre-bash"
    /\ ~stdin.syntax
    /\ args # <<>>
    /\ mpc = "handler"
    /\ bpc = "exit"
    /\ exitCode = 0
    /\ stdout = <<>>


-----------------------------------------------------------------------------
(* Claims about the scan of the pre-bash gate *)

\* what the first two words of a sub-command make it: "mysql" for a denylisted
\* executable, "commit" for a git commit, "other" else
KindOfParts(parts) ==
    IF parts = <<>> THEN "other"
    ELSE IF IsMySQLExecutable(ToLower(Base(parts[1]))) THEN "mysql"
    ELSE IF Len(parts) >= 2 /\ ToLower(Base(parts[1])) = Git /\ parts[2] = Commit
    THEN "commit"
    ELSE "other"

KindAt == [k \in 1..Len(subCommands) |-> KindOfParts(Fields(subCommands[k]))] \o <<>>

\* the places among the first n sub-commands that hold a git commit
CommitPlaces(kindAt, n) == {k \in 1..n : kindAt[k] = "commit"}

\* whether the sub-command at place k is one the gate denies: a denylisted
\* executable, or a git commit that was checked and found on a protected branch
DeniedAt(kindAt, k) ==
    \/ kindAt[k] = "mysql"
    \/ /\ kindAt[k] = "commit"
       /\ Cardinality(CommitPlaces(kindAt, k)) <= Len(checked)
       /\ checked[Cardinality(CommitPlaces(kindAt, k))].verdict = "deny"

\* why a git commit is let through: its target directory is undetermined, or
\* its branch is empty or not protected
LetThrough(e) ==
    \/ e.targetDir = <<>>
    \/ e.branch = <<>>
    \/ e.branch \notin {BranchMain, BranchMaster}

\* the sub-commands the gate has scanned when it has ended: all before idx,
\* and the one at idx when it ended there with a deny decision
Scanned == IF Denied THEN idx ELSE Min({idx - 1, Len(subCommands)})

\* when the gate has ended: every git commit scanned has its entry in checked,
\* in order; a commit that is let through is allowed; no sub-command before
\* idx is denied; the gate has ended with a deny decision exactly at the first
\* denied sub-command, and without one only after the last sub-command
ScanVerdictOn(kindAt) ==
    /\ Len(checked) = Cardinality(CommitPlaces(kindAt, Scanned))
    /\ \A j \in 1..Len(checked) :
          /\ \E k \in CommitPlaces(kindAt, Scanned) :
                /\ Cardinality(CommitPlaces(kindAt, k)) = j
                /\ checked[j].subCmd = subCommands[k]
          /\ LetThrough(checked[j]) <=> checked[j].verdict = "allow"
    /\ \A k \in 1..Min({idx - 1, Len(subCommands)}) : ~DeniedAt(kindAt, k)
    /\ exitCode = 0
    /\ IF Denied
       THEN idx <= Len(subCommands) /\ DeniedAt(kindAt, idx)
       ELSE /\ stdout = <<>>
            /\ idx = Len(subCommands) + 1
            /\ \A k \in 1..Len(subCommands) : ~DeniedAt(kindAt, k)

-----------------------------------------------------------------------------
(* Claims about quoted text and arguments in the pre-bash gate *)

\* whether some sub-command of the quote-aware reading of cmd has a denylisted
\* executable name
RefDenylisted(cmd) ==
    \E k \in 1..Len(RefSubCommands(cmd)) :
        IsMySQLExecutable(ExecutableName(RefSubCommands(cmd)[k]))

\* whether a denylisted name stands somewhere in the text of cmd
MentionsDenylisted(cmd) ==
    \/ Contains(ToLower(cmd), Mysql)
    \/ Contains(ToLower(cmd), Mariadb)

\* the gate ended with a deny decision of the denylist rule
DeniedByDenylist == Denied /\ stdout[1].reason.kind = "mysql"

\* C21: no false denial from quoted or argument text. A command in which a
\* denylisted name stands only inside a quoted argument, or only as a
\* non-first token of a sub-command, is not denied by the denylist rule: the
\* gate ends without a deny decision of that rule.
C21_NoFalseDenialFromQuotedText ==
    (Finished /\ IsBashTool /\ MentionsDenylisted(command)
        /\ ~RefDenylisted(command))
    => ~DeniedByDenylist

\* the part of C21 about arguments: without quote characters in the command, a
\* denylisted name that is no first token of a sub-command is never denied
C21_ArgumentTextIsAllowed ==
    (Finished /\ IsBashTool /\ MentionsDenylisted(command)
        /\ NextQuote(command, 1) = 0 /\ ~RefDenylisted(command))
    => ~DeniedByDenylist

-----------------------------------------------------------------------------
(* Claims about an unterminated quote *)

\* the place of the quote character of cmd at or after i that is opened and
\* never closed, 0 when every quote is closed
RECURSIVE OpenQuoteFrom(_, _)
OpenQuoteFrom(cmd, i) ==
    LET j == NextQuote(cmd, i) IN
    IF j = 0 THEN 0
    ELSE LET k == NextChar(cmd, cmd[j], j + 1) IN
         IF k = 0 THEN j ELSE OpenQuoteFrom(cmd, k + 1)

\* the text from the start of the sub-command that holds the unterminated
\* quote to the end of the input, trimmed
EnclosingSubCommand(cmd) ==
    TrimSpace(RefPieces(cmd)[Len(RefPieces(cmd))])

\* whether "&&", "||" or ";" stands in s
HasReplacedOperator(s) ==
    Contains(s, <<"&", "&">>) \/ Contains(s, <<"|", "|">>) \/ Contains(s, <<";">>)

\* C22: unterminated quote. When a quote character is opened and never closed,
\* every "&&", "||", ";" and "|" after it is literal text: the last returned
\* sub-command is the text from the start of the enclosing sub-command to the
\* end of the input.
C22_UnterminatedQuoteIsLiteral ==
    (Parsed /\ OpenQuoteFrom(command, 1) # 0) =>
        /\ subCommands # <<>>
        /\ subCommands[Len(subCommands)] = EnclosingSubCommand(command)

\* the part of C22 about "|": when the enclosing sub-command holds no "&&", "||"
\* or ";", the text from its start to the end of the input is the last
\* returned sub-command, whatever "|" follows the unterminated quote
C22_PipeAfterOpenQuoteIsLiteral ==
    (Parsed /\ OpenQuoteFrom(command, 1) # 0
        /\ ~HasReplacedOperator(RefPieces(command)[Len(RefPieces(command))]))
    => /\ subCommands # <<>>
       /\ subCommands[Len(subCommands)] = EnclosingSubCommand(command)

-----------------------------------------------------------------------------
(* Further claims about the plan scorer *)

HasChecklist(text) ==
    Contains(text, <<"-"," ","["," ","]">>) \/ Contains(text, 
        <<"-"," ","[","x","]">>)

\* whether word (in lower case) stands in text, letters of either case
HasWord(text, word) ==
    \E i \in 1..(Len(text) - Len(word) + 1) :
        \A k \in 1..Len(word) : ToLowerChar(text[i + k - 1]) = word[k]

\* the weight of an indicator that is present, nothing for one that is not
Weight(present, w) == IF present THEN w ELSE 0

\* the sum of the weights of the indicators present in text
WeightSum(text) ==
    Weight(HasPlanHeading(text), 100)
    + Weight(HasNumberedList(text), 20)
    + Weight(HasChecklist(text), 20)
    + Weight(HasWord(text, <<"p","l","a","n">>), 10)
    + Weight(HasWord(text, <<"s","t","e","p">>), 5)

\* C23: for every text of at least 50 characters scorePlan returns exactly the
\* sum of the weights of the indicators present, each counted once and
\* independently of the others (100 plan heading, 20 both list markers, 20
\* checklist marker, 10 "plan", 5 "step", the words in either case); the
\* result is never negative and never above 155, and it is 0 for empty input.
C23_ScoreIsSumOfWeights ==
    spc = "ret" =>
        /\ Len(scoreArg) >= 50 => score = WeightSum(scoreArg)
        /\ score >= 0 /\ score <= 155
        /\ scoreArg = <<>> => score = 0

\* C23 witness: a text of at least 50 characters that holds every indicator,
\* the checklist marker and the word "plan" more than once, scored 155
C23_Witness ==
    /\ spc = "ret"
    /\ Len(scoreArg) >= 50
    /\ HasPlanHeading(scoreArg) /\ HasNumberedList(scoreArg)
    /\ Contains(scoreArg, <<"-"," ","["," ","]">>) /\ Contains(scoreArg, 
        <<"-"," ","[","x","]">>)
    /\ Contains(scoreArg, <<"P","l","a","n">>) /\ Contains(scoreArg, 
        <<"P","L","A","N">>)
    /\ HasWord(scoreArg, <<"s","t","e","p">>)
    /\ score = 155

-----------------------------------------------------------------------------
(* Further claims about the transcript plan selector *)

\* a line that is no JSON document: blank, or malformed
IsNoJSON(line) == line.kind = "text"

IsJSON(line) == ~IsNoJSON(line)

\* the transcript with its blank and malformed lines removed
WithoutNoJSON(lines) == SelectSeq(lines, IsJSON)

\* C24: malformed lines (no valid JSON) and blank lines are skipped without
\* aborting the scan: the outcome for a transcript, plan or
\* not-found error, is the outcome for the same transcript with those lines
\* removed, wherever they stand.
C24_MalformedAndBlankLinesSkipped ==
    (tpc = "ret" /\ tpos >= 1) =>
        extracted = extractPlanFromTranscript(
                        [readable |-> TRUE, lines |-> WithoutNoJSON(transcript)])

\* C24 witness: a plan returned from a transcript whose first line is
\* malformed and whose last line is blank, the plan standing between them
C24_Witness ==
    /\ tpc = "ret" /\ extracted.ok
    /\ Len(transcript) = 3
    /\ IsNoJSON(transcript[1]) /\ ~IsBlankLine(transcript[1])
    /\ IsAssistantTurn(transcript[2])
    /\ extracted.plan = extractContentString(transcript[2].doc.content)
    /\ IsBlankLine(transcript[3])

-----------------------------------------------------------------------------
(* Further claims about the reviewer fan-out *)

\* the goroutines that have written to the result collection
Writers == {writes[k] : k \in 1..Len(writes)}

\* a step that changes slot j of the collection is the one write of goroutine
\* j: it changes no other slot, and goroutine j had not written before
WritesOwnSlotOnce ==
    Len(reviews) = 3 =>
       /\ \A j \in 1..3 :
             reviews'[j] # reviews[j] =>
                /\ gpc[j] = "running" /\ gpc'[j] = "assigned"
                /\ j \notin Writers
                /\ writes' = Append(writes, j)
                /\ \A k \in 1..3 \ {j} : reviews'[k] = reviews[k]
       /\ writes' # writes =>
             \E j \in 1..3 :
                /\ writes' = Append(writes, j)
                /\ reviews'[j] # reviews[j]

\* no goroutine wrote twice; the collection has been read, to build the summary
\* and the result, only with all three writes done, and it was not written
\* again afterwards
ReadAfterAllWrites ==
    /\ \A a, b \in 1..Len(writes) : writes[a] = writes[b] => a = b
    /\ (\A i \in 1..3 : gpc[i] = "done") => Writers = 1..3
    /\ result.ok =>
          /\ Len(writes) = 3 /\ Writers = 1..3
          /\ result.Reviews = reviews
          /\ result.Summary = buildReviewSummary(reviews)

\* C25: data-race freedom of the fan-out. In every interleaving reviewer task i
\* writes only slot i of the shared result collection and writes it exactly
\* once, no two tasks write the same slot, and the collection is read to build
\* the summary only after all three writes have happened.
C25_DisjointSlotsReadAfterWrites ==
    [](ReadAfterAllWrites) /\ [][WritesOwnSlotOnce]_vars

\* C25 witness: the tasks wrote in the order 2, 3, 1, each its own slot, and
\* the result was built afterwards
C25_Witness ==
    /\ rpc = "ret" /\ result.ok
    /\ writes = <<2, 3, 1>>
    /\ \A i \in 1..3 : reviews[i] = runReview(i, outcome[i])
    /\ reviews[1] # reviews[2] /\ reviews[2] # reviews[3]


\* the four kinds of a recorded outcome of reviewer i, told by its error field
KindSuccess(i, review) == review.Error = <<>>

KindNotInstalled(i, review) ==
    MatchAt(review.Error, ReviewerNames[i] \o 
        <<" ","C","L","I"," ","n","o","t"," ","i","n","s","t","a","l","l","e",
          "d">>, 1)

KindTimedOut(i, review) ==
    MatchAt(review.Error, ReviewerNames[i] \o 
        <<" ","r","e","v","i","e","w"," ","t","i","m","e","d"," ","o","u","t",
          " ","(">>, 1)

KindOtherFailure(i, review) ==
    MatchAt(review.Error, ReviewerNames[i] \o 
        <<" ","r","e","v","i","e","w"," ","f","a","i","l","e","d",":"," ">>, 1)

\* the kinds the recorded outcome of reviewer i falls in
KindsOf(i, review) ==
    {k \in {"success", "not installed", "timed out", "other failure"} :
        \/ k = "success" /\ KindSuccess(i, review)
        \/ k = "not installed" /\ KindNotInstalled(i, review)
        \/ k = "timed out" /\ KindTimedOut(i, review)
        \/ k = "other failure" /\ KindOtherFailure(i, review)}

\* a feedback that is a notice about reviewer i and no output of its process
IsPlaceholder(i, review) ==
    /\ MatchAt(review.Feedback, <<Warn>> \o <<" ">> \o ReviewerNames[i], 1)
    /\ review.Feedback # TrimSpace(outcome[i].stdout)

\* reviewer i has recorded its outcome
Recorded(i) == Len(reviews) = 3 /\ gpc[i] \in {"assigned", "done"}

\* C26: each recorded reviewer outcome falls in exactly one of four kinds:
\* success (error empty, feedback the trimmed standard output), not installed
\* (its own error, installation guidance), timed out (its own error), other
\* failure (the error carries the error of the process and its diagnostic
\* output); in the three failure kinds the error is non-empty and the feedback
\* holds a placeholder; an expired deadline is always recorded as timed out,
\* never as other failure.
C26_FourOutcomeKinds ==
    \A i \in 1..3 :
       Recorded(i) =>
          \A r \in {reviews[i]} : \A o \in {outcome[i]} :
             /\ Cardinality(KindsOf(i, r)) = 1
             /\ KindSuccess(i, r) <=> o.err = <<>>
             /\ KindSuccess(i, r) => r.Feedback = TrimSpace(o.stdout)
             /\ KindNotInstalled(i, r) <=> Contains(o.err, ExecutableFileNotFound)
             /\ KindNotInstalled(i, r) => Contains(r.Feedback, 
                 <<"i","n","s","t","a","l","l"," ">>)
             /\ KindOtherFailure(i, r) =>
                   /\ Contains(r.Error, o.err)
                   /\ Contains(r.Error, o.stderr)
                   /\ ~o.deadline
             /\ ~KindSuccess(i, r) => r.Error # <<>> /\ IsPlaceholder(i, r)
             /\ o.deadline => KindTimedOut(i, r)

\* C26 witness: the three failure kinds recorded side by side, the deadline of
\* the third reviewer having expired
C26_Witness ==
    /\ \A i \in 1..3 : Recorded(i)
    /\ KindNotInstalled(1, reviews[1])
    /\ KindOtherFailure(2, reviews[2]) /\ outcome[2].stderr # <<>>
    /\ KindTimedOut(3, reviews[3]) /\ outcome[3].deadline
    /\ \A i \in 1..3 : IsPlaceholder(i, reviews[i])


\* every reviewer task has completed and ReviewPlan has returned a result with
\* the three outcomes
FanOutReturned ==
    /\ rpc = "ret" /\ result.ok
    /\ \A i \in 1..3 : gpc[i] = "done"
    /\ Len(result.Reviews) = 3

\* a recorded outcome is not modified: neither the slot nor what the process
\* ended with changes after goroutine i has written
RecordedIsImmutable ==
    \A i \in 1..3 :
       Recorded(i) =>
          /\ reviews'[i] = reviews[i]
          /\ outcome'[i] = outcome[i]
          /\ Recorded(i)'

\* C27: termination of the fan-out. With each external process exiting or
\* being killed when its own deadline fires, and a fair scheduler, ReviewPlan
\* always returns; once it has a plan every reviewer task completes and a
\* result is returned; no reviewer outcome is modified after it has been
\* recorded.
C27_FanOutTerminates ==
    /\ <>(rpc = "ret")
    /\ (rpc = "spawn") ~> FanOutReturned
    /\ \A i \in 1..3 : (gpc[i] = "ready") ~> (gpc[i] = "done")
    /\ [][RecordedIsImmutable]_vars

\* C27 witness: ReviewPlan returned after all three processes had been killed
\* at their deadlines
C27_Witness ==
    /\ FanOutReturned
    /\ \A i \in 1..3 : outcome[i] = TimedOut(Limits[i])
    /\ \A i \in 1..3 : KindTimedOut(i, result.Reviews[i])

-----------------------------------------------------------------------------
(* Claims about the plan-review hook *)

\* no reviewer process has been started
NoReviewerStarted ==
    /\ spawned = 0
    /\ \A i \in 1..3 : gpc[i] = "none" /\ outcome[i] = NoOutcome

\* nothing has been written to standard output
NothingWritten == stdout = <<>>

\* all three reviewer outcomes exist
AllOutcomesExist ==
    /\ Len(reviews) = 3
    /\ \A i \in 1..3 : outcome[i].ran /\ gpc[i] = "done" /\ reviews[i].Model # <<>>

\* C28: plan review never blocks without a report. When the tool name is not
\* ExitPlanMode, or no plan can be obtained (no transcript path, unreadable
\* transcript, no assistant turn scoring above 0), no reviewer process is
\* started, no deny decision is written and the program exits 0; a deny
\* decision is written only after all three reviewer outcomes exist, and its
\* reason contains the aggregated summary.
C28_NoBlockWithoutReport ==
    /\ exitCode \in {-1, 0}
    /\ mpc = "exit" <=> exitCode = 0
    /\ (mpc # "main" /\ mainInput.ToolName # ExitPlanMode) =>
          rpc = "idle" /\ NoReviewerStarted /\ NothingWritten
    /\ (rpc = "ret" /\ mainInput.TranscriptPath = <<>>) =>
          ~result.ok /\ result.err = "no plan content found to review"
    /\ plan = <<>> => NoReviewerStarted /\ NothingWritten
    /\ (rpc = "ret" /\ ~result.ok) => plan = <<>>
    /\ ~NothingWritten =>
          /\ Len(stdout) = 1
          /\ stdout[1].permissionDecision = "deny"
          /\ AllOutcomesExist
          /\ result.ok /\ result.Reviews = reviews
          /\ MatchAt(stdout[1].reason, buildReviewSummary(reviews), 1)
          /\ mpc = "exit"

\* C28 witness: a deny decision with the summary of three outcomes, one of
\* them a failure, written for an ExitPlanMode call with a transcript
C28_Witness ==
    /\ mpc = "exit" /\ exitCode = 0
    /\ mainInput.ToolName = ExitPlanMode /\ mainInput.TranscriptPath # <<>>
    /\ Len(stdout) = 1 /\ stdout[1].permissionDecision = "deny"
    /\ AllOutcomesExist
    /\ KindTimedOut(3, reviews[3]) /\ KindSuccess(1, reviews[1])
    /\ Contains(stdout[1].reason, result.Summary)

\* the runs of C28 that end without a report: an unreadable transcript or one
\* without a plan, and a tool that is not ExitPlanMode
C28_WitnessNoPlan ==
    /\ mpc = "exit" /\ exitCode = 0
    /\ mainInput.ToolName = ExitPlanMode /\ mainInput.TranscriptPath # <<>>
    /\ result.err = "failed to extract plan"
    /\ NoReviewerStarted /\ NothingWritten

-----------------------------------------------------------------------------
(* Claims about the text of the returned sub-commands *)

\* whether the quote-aware reading of s finds a delimiter outside quotes
HasUnquotedDelimiter(s) == Len(RefTokens(s)) > 1

\* whether sub is text of the command and holds no delimiter outside quotes
IsCleanSubstring(cmd, sub) ==
    Contains(cmd, sub) /\ ~HasUnquotedDelimiter(sub)

\* C29: every sub-command returned by parseCompoundCommand is a contiguous
\* substring of the original command: no returned text is absent from the
\* input (such as fragments of the internal separator), and no returned
\* sub-command still contains a delimiter outside quotes.
C29_SubCommandsAreSubstrings ==
    Parsed =>
        \A k \in 1..Len(subCommands) : IsCleanSubstring(command, subCommands[k])

\* the part of C29 that holds: for a command without "&&", "||" and ";" every
\* returned sub-command is a substring of it without unquoted delimiter
C29_PipeOnlySubCommandsAreSubstrings ==
    (Parsed /\ ~HasReplacedOperator(command)) =>
        \A k \in 1..Len(subCommands) : IsCleanSubstring(command, subCommands[k])

-----------------------------------------------------------------------------
(* The settings merge of the setup program: addPostToolUseHook,              *)
(* addPreToolUseHook and addPlanReviewHook on a ClaudeSettings value.        *)
(* settings.Hooks is a Go map: a function from the event names present to    *)
(* the list of HookMatcher values of each.                                   *)

\* Hook{Type, Command} and HookMatcher{Matcher, Hooks}
Hook(type, command_) == [Type |-> type, Command |-> command_]
HookMatcher(matcher, hooks) == [Matcher |-> matcher, Hooks |-> hooks]

\* settings.Hooks[event]: the nil slice for an event that is no key of the map
HooksOf(s, event) == IF event \in DOMAIN s.Hooks THEN s.Hooks[event] ELSE <<>>

\* settings.Hooks[event] = matchers
SetHooks(s, event, matchers) ==
    [s EXCEPT !.Hooks = [e \in DOMAIN s.Hooks \cup {event} |->
                            IF e = event THEN matchers ELSE s.Hooks[e]]]

\* the index of the first matcher of the list with the given name, 0 when the
\* loop finds none
FirstMatcher(matchers, name) ==
    LET hits == {i \in 1..Len(matchers) : matchers[i].Matcher = name} IN
    IF hits = {} THEN 0 ELSE Min(hits)

\* the inner loop: whether a hook of the matcher has the command
HasCommand(matcher, hookCommand) ==
    \E k \in 1..Len(matcher.Hooks) : matcher.Hooks[k].Command = hookCommand

\* the body the three add functions share, for their event and matcher name
addHook(s, event, name, hookCommand) ==
    LET matchers == HooksOf(s, event)
        i == FirstMatcher(matchers, name)
    IN IF i # 0
       THEN IF HasCommand(matchers[i], hookCommand) THEN s
            ELSE SetHooks(s, event,
                     [matchers EXCEPT ![i].Hooks =
                         Append(@, Hook("command", hookCommand))])
       ELSE SetHooks(s, event,
                Append(matchers,
                       HookMatcher(name, <<Hook("command", hookCommand)>>)))

\* a mutation of addPostToolUseHook without the test for the command: the
\* hook is appended to the matcher on every call
addPostToolUseHookAlwaysAppends(s, hookCommand) ==
    LET matchers == HooksOf(s, "PostToolUse")
        i == FirstMatcher(matchers, "Write|Edit|MultiEdit")
    IN IF i # 0
       THEN SetHooks(s, "PostToolUse",
                [matchers EXCEPT ![i].Hooks =
                    Append(@, Hook("command", hookCommand))])
       ELSE SetHooks(s, "PostToolUse",
                Append(matchers,
                       HookMatcher("Write|Edit|MultiEdit",
                                   <<Hook("command", hookCommand)>>)))

addPostToolUseHook(s, hookCommand) ==
    addHook(s, "PostToolUse", "Write|Edit|MultiEdit", hookCommand)

addPreToolUseHook(s, hookCommand) ==
    addHook(s, "PreToolUse", "Bash", hookCommand)

addPlanReviewHook(s, hookCommand) ==
    addHook(s, "PreToolUse", "ExitPlanMode", hookCommand)

\* the commands main builds with fmt.Sprintf, for the directory /repo
postHookCommand ==
    "bash -c \"cd /repo && go run cmd/claude-hook/main.go -type post-edit\""
preHookCommand ==
    "bash -c \"cd /repo && go run cmd/claude-hook/main.go -type pre-bash\""
planReviewCommand ==
    "bash -c \"cd /repo && go run cmd/claude-hook/main.go -type plan-review\""

(* The settings the setup program may find *)

\* hooks of the user
Notify == Hook("command", "notify-send done")
Audit == Hook("command", "audit.sh")

\* a hook with the command of the post-edit hook and another type
PostHookOtherType == Hook("script", postHookCommand)

PostToolUseLists ==
    { <<>>,
      << HookMatcher("Write|Edit|MultiEdit", <<Notify>>) >>,
      << HookMatcher("Write", <<Audit>>),
         HookMatcher("Write|Edit|MultiEdit",
                     <<Notify, Hook("command", postHookCommand), Audit>>) >>,
      << HookMatcher("Write|Edit|MultiEdit", <<Notify>>),
         HookMatcher("Write|Edit|MultiEdit", <<Hook("command", postHookCommand)>>) >>,
      << HookMatcher("Write|Edit|MultiEdit", <<PostHookOtherType>>),
         HookMatcher("Edit", <<>>) >> }

PreToolUseLists ==
    { <<>>,
      << HookMatcher("Bash", <<Audit>>) >>,
      << HookMatcher("ExitPlanMode", <<Hook("command", planReviewCommand)>>),
         HookMatcher("Bash", <<Hook("command", preHookCommand), Notify>>) >>,
      << HookMatcher("Bash", <<Hook("command", planReviewCommand)>>),
         HookMatcher("Read", <<Audit>>) >>,
      << HookMatcher("ExitPlanMode", <<>>),
         HookMatcher("Bash|ExitPlanMode", <<Notify>>),
         HookMatcher("ExitPlanMode", <<Audit>>) >> }

\* the map with the given lists; an empty list stands for an event that is no
\* key of the map
HooksMap(post, pre, withStop) ==
    [e \in (IF post = <<>> THEN {} ELSE {"PostToolUse"})
           \cup (IF pre = <<>> THEN {} ELSE {"PreToolUse"})
           \cup (IF withStop THEN {"Stop"} ELSE {}) |->
        IF e = "PostToolUse" THEN post
        ELSE IF e = "PreToolUse" THEN pre
        ELSE << HookMatcher("", <<Notify>>) >>]

\* what readOrCreateSettings may return: the Hooks map is never nil
InitialSettings ==
    { [Model |-> m, Hooks |-> HooksMap(post, pre, withStop)] :
        m \in {"", "opus"}, post \in PostToolUseLists, pre \in PreToolUseLists,
        withStop \in BOOLEAN }

NoCalls == [post |-> 0, pre |-> 0, plan |-> 0]

InitSettings ==
    /\ settings \in InitialSettings
    /\ calls = NoCalls
    /\ BashIdle /\ ScoreIdle /\ TransIdle /\ ReviewIdle /\ MainIdle

\* err = addPostToolUseHook(settings, postHookCommand)
CallAddPostToolUseHook ==
    /\ calls.post < MaxCalls
    /\ settings' = addPostToolUseHook(settings, postHookCommand)
    /\ calls' = [calls EXCEPT !.post = @ + 1]
    /\ UNCHANGED <<bashVars, scoreVars, transVars, reviewVars, mainVars>>

\* err = addPreToolUseHook(settings, preHookCommand)
CallAddPreToolUseHook ==
    /\ calls.pre < MaxCalls
    /\ settings' = addPreToolUseHook(settings, preHookCommand)
    /\ calls' = [calls EXCEPT !.pre = @ + 1]
    /\ UNCHANGED <<bashVars, scoreVars, transVars, reviewVars, mainVars>>

\* err = addPlanReviewHook(settings, planReviewCommand)
CallAddPlanReviewHook ==
    /\ calls.plan < MaxCalls
    /\ settings' = addPlanReviewHook(settings, planReviewCommand)
    /\ calls' = [calls EXCEPT !.plan = @ + 1]
    /\ UNCHANGED <<bashVars, scoreVars, transVars, reviewVars, mainVars>>

NextSettings ==
    \/ CallAddPostToolUseHook
    \/ CallAddPreToolUseHook
    \/ CallAddPlanReviewHook

SpecSettings == InitSettings /\ [][NextSettings]_vars


(* Claims about the settings merge *)

\* whether the list a is the beginning of the list b
IsPrefix(a, b) ==
    /\ Len(a) <= Len(b)
    /\ \A i \in 1..Len(a) : a[i] = b[i]

\* every matcher and hook entry of before is in after, unchanged and at the
\* same place; the other fields are unchanged
Preserves(before, after) ==
    /\ after.Model = before.Model
    /\ DOMAIN before.Hooks \subseteq DOMAIN after.Hooks
    /\ \A e \in DOMAIN before.Hooks :
          /\ Len(before.Hooks[e]) <= Len(after.Hooks[e])
          /\ \A i \in 1..Len(before.Hooks[e]) :
                /\ after.Hooks[e][i].Matcher = before.Hooks[e][i].Matcher
                /\ IsPrefix(before.Hooks[e][i].Hooks, after.Hooks[e][i].Hooks)

\* how often the command is listed under a matcher
TimesListed(matcher, hookCommand) ==
    Cardinality({k \in 1..Len(matcher.Hooks) :
                    matcher.Hooks[k].Command = hookCommand})

\* the command is listed once under the first matcher of the event with the
\* given name
ListedOnce(event, name, hookCommand) ==
    LET matchers == HooksOf(settings, event)
        i == FirstMatcher(matchers, name)
    IN i # 0 /\ TimesListed(matchers[i], hookCommand) = 1

\* no matcher lists one of the three commands twice, and the command of a
\* function that has been called is listed under its matcher
ListedOnceWhenCalled ==
    /\ \A e \in DOMAIN settings.Hooks : \A i \in 1..Len(settings.Hooks[e]) :
          \A c \in {postHookCommand, preHookCommand, planReviewCommand} :
             TimesListed(settings.Hooks[e][i], c) <= 1
    /\ calls.post >= 1 =>
          ListedOnce("PostToolUse", "Write|Edit|MultiEdit", postHookCommand)
    /\ calls.pre >= 1 => ListedOnce("PreToolUse", "Bash", preHookCommand)
    /\ calls.plan >= 1 =>
          ListedOnce("PreToolUse", "ExitPlanMode", planReviewCommand)

\* a call of a function that has been called before changes nothing
RepeatedCallChangesNothing ==
    /\ (calls'.post = calls.post + 1 /\ calls.post >= 1) => settings' = settings
    /\ (calls'.pre = calls.pre + 1 /\ calls.pre >= 1) => settings' = settings
    /\ (calls'.plan = calls.plan + 1 /\ calls.plan >= 1) => settings' = settings

\* C30: the settings merge is idempotent and preserving. Calling
\* addPostToolUseHook, addPreToolUseHook and addPlanReviewHook again with the
\* same commands leaves the settings as the first calls left them, no hook
\* command is listed twice under its matcher, and every matcher and hook entry
\* present before a call is still present after it, unchanged and in the same
\* order.
C30_MergeIdempotentAndPreserving ==
    /\ [](ListedOnceWhenCalled)
    /\ [][RepeatedCallChangesNothing /\ Preserves(settings, settings')]_vars

\* C30 witness: each function was called twice on settings that held a hook
\* of the user under the post-edit matcher and no PreToolUse entry; the user's
\* hook stands before the added command, and the two new matchers follow in
\* the order of the first calls
C30_Witness ==
    /\ calls.post >= 2 /\ calls.pre >= 2 /\ calls.plan >= 2
    /\ settings.Model = "opus"
    /\ HooksOf(settings, "PostToolUse") =
          << HookMatcher("Write|Edit|MultiEdit",
                         <<Notify, Hook("command", postHookCommand)>>) >>
    /\ HooksOf(settings, "PreToolUse") =
          << HookMatcher("ExitPlanMode", <<Hook("command", planReviewCommand)>>),
             HookMatcher("Bash", <<Hook("command", preHookCommand)>>) >>
    /\ HooksOf(settings, "Stop") # <<>>

====
